---- MODULE Spec2Model ----
(***************************************************************************)
(* The date-planner pipeline of src/python/date-planner/main.py:           *)
(* query generation, the concurrent search tasks joined by asyncio.gather, *)
(* aggregation, scoring, filtering and presentation.                       *)
(*                                                                         *)
(* Modelling conventions.                                                  *)
(*  - A Python str is a sequence of one-character strings, so strip,       *)
(*    split, lower, slicing and the `in` substring test are computed       *)
(*    character by character.  None (where a str is expected) is the       *)
(*    one-element sequence NoneStr, whose element is no character.         *)
(*  - Restaurant objects live in `heap`; every Python list of restaurants  *)
(*    is a sequence of heap ids, so the aliasing between                   *)
(*    all_restaurants_flat, scored_restaurants and the SearchResults is    *)
(*    kept: the scorer writes ai_score / ai_reason in place.               *)
(*  - A search task suspends at every await of an external call; the       *)
(*    tasks of asyncio.gather interleave at those points.  goto and the    *)
(*    wait_for_timeout that follows it are one step: nothing is written    *)
(*    between them and both fail into the same handler.                    *)
(***************************************************************************)
EXTENDS Integers, Sequences, FiniteSets, TLC

(***************************************************************************)
(* Bounds of the model (not program constants).                            *)
(***************************************************************************)
\* most records one extraction call returns when several searches run
MaxRecords == 1
\* most records one extraction call returns when a single search runs
MaxRecordsAlone == 4
\* most external calls of the search tasks that fail in one run
MaxFaults == 2
\* most candidates the scorer specification starts with
MaxCand == 3
\* most elements of a scoring reply in the scorer specification
MaxReplyLen == 2
\* most candidates the filter specification starts with (besides the two
\* scenarios of five and six candidates)
MaxFilterCand == 3

(***************************************************************************)
(* Program constants.                                                      *)
(***************************************************************************)
\* queries[:3]
MaxQueries == 3
\* a variant that goes through every extracted record
MaxVerifiedAll == MaxRecordsAlone + 1
\* range(min(3, len(restaurants_list)))
MaxVerified == 3

(***************************************************************************)
(* Strings.                                                                *)
(***************************************************************************)
NoneStr == <<"<None>">>
Thai == <<"T","h","a","i">>
Italian == <<"I","t","a","l","i","a","n">>
Mexican == <<"M","e","x","i","c","a","n">>
FineDining == <<"F","i","n","e"," ","D","i","n","i","n","g">>
SanFrancisco == <<"S","F">>
Austin == <<"A","u","s","t","i","n">>
BudgetOne == <<"$">>
BudgetTwo == <<"$","$">>
StrRestaurantsIn == <<" ","r","e","s","t","a","u","r","a","n","t","s"," ","i","n"," ">>
StrBest == <<"b","e","s","t"," ">>
StrRestaurants == <<" ","r","e","s","t","a","u","r","a","n","t","s"," ">>
StrSpace == <<" ">>
UpperChars == <<"A","B","C","D","E","F","G","H","I","J","K","L","M","N","O","P","Q","R","S","T","U","V","W","X","Y","Z">>
LowerChars == <<"a","b","c","d","e","f","g","h","i","j","k","l","m","n","o","p","q","r","s","t","u","v","w","x","y","z">>

Min(a, b) == IF a <= b THEN a ELSE b

\* str.isspace for the characters the model uses
IsSpace(c) == c \in {" ", "\n"}

RECURSIVE LStrip(_)
LStrip(s) ==
    IF s # <<>> /\ IsSpace(Head(s)) THEN LStrip(Tail(s)) ELSE s

RECURSIVE RStrip(_)
RStrip(s) ==
    IF s # <<>> /\ IsSpace(s[Len(s)]) THEN RStrip(SubSeq(s, 1, Len(s) - 1)) ELSE s

\* str.strip()
Strip(s) == RStrip(LStrip(s))

\* str.split(sep) for a one-character separator
RECURSIVE Split(_, _)
Split(s, sep) ==
    IF \E i \in 1..Len(s) : s[i] = sep
    THEN LET i == CHOOSE k \in 1..Len(s) :
                      s[k] = sep /\ \A j \in 1..(k - 1) : s[j] # sep
         IN  <<SubSeq(s, 1, i - 1)>> \o Split(SubSeq(s, i + 1, Len(s)), sep)
    ELSE <<s>>

\* str.lower()
LowerChar(c) ==
    IF \E i \in 1..Len(UpperChars) : UpperChars[i] = c
    THEN LowerChars[CHOOSE i \in 1..Len(UpperChars) : UpperChars[i] = c]
    ELSE c

Lower(s) == [i \in 1..Len(s) |-> LowerChar(s[i])]

\* the Python test `p in s` on two strs
Contains(s, p) ==
    LET str == s
        sub == p
    IN  \E i \in 0..(Len(str) - Len(sub)) : SubSeq(str, i + 1, i + Len(sub)) = sub

(***************************************************************************)
(* State.                                                                  *)
(***************************************************************************)
VARIABLES
    user_input,            \* the DatePlannerAnswers collected by get_user_input
    main_pc,               \* where main() is
    gen_response,          \* what the query-generation request gave
    search_queries,        \* main's search_queries
    tasks,                 \* the run_single_search coroutines, by launch order
    calls,                 \* the external calls each coroutine has issued
    first_done,            \* the launch index of the coroutine that returned
                           \* first (0: none has returned)
    heap,                  \* the Restaurant objects, by id
    faults,                \* external calls that have failed so far
    all_results,           \* main's all_results
    all_restaurants_flat,  \* main's all_restaurants_flat
    response,              \* what the scoring request gave
    scored_restaurants,    \* main's scored_restaurants
    filtered_restaurants,  \* main's filtered_restaurants
    top3_restaurants,      \* main's top3_restaurants
    activities,            \* main's activities
    activity_call,         \* the nearby-activities request: for which Restaurant,
                           \* and what it gave
    outcome,               \* what main printed last / how it ended
    shown,                 \* the candidates listed when nothing matched
    primary_restaurant,    \* main's primary_restaurant
    backup_restaurants,    \* main's backup_restaurants
    requests,              \* the chat completion requests sent, by purpose
    exit_code,             \* the exit status of the process, once it has ended
    script,                \* the script that runs
    env,                   \* os.environ: whether each credential is set
    script_calls,          \* gemini-cua and one-liner-generator: the browser
                           \* sessions requested, the extractions and the
                           \* model requests sent
    one_liner              \* one-liner-generator: what the page gave and what
                           \* generate_one_liner returned

genVars == <<user_input, gen_response, search_queries>>
rankVars == <<response, scored_restaurants, filtered_restaurants, top3_restaurants,
              activities, activity_call>>
\* the scripts
DatePlanner == "date-planner"
GeminiCua == "gemini-cua"
OneLinerGenerator == "one-liner-generator"
Scripts == {DatePlanner, GeminiCua, OneLinerGenerator}

\* the credentials the scripts read from the environment
BrowserbaseKeys == {"BROWSERBASE_API_KEY", "BROWSERBASE_PROJECT_ID"}
Credentials == BrowserbaseKeys \cup {"OPENAI_API_KEY", "GOOGLE_API_KEY"}
\* os.environ with the credentials of `e` set and the others not
Environment(e) ==
    [BROWSERBASE_API_KEY |-> "BROWSERBASE_API_KEY" \in e,
     BROWSERBASE_PROJECT_ID |-> "BROWSERBASE_PROJECT_ID" \in e,
     OPENAI_API_KEY |-> "OPENAI_API_KEY" \in e,
     GOOGLE_API_KEY |-> "GOOGLE_API_KEY" \in e]
NoScriptCalls == [session |-> 0, extract |-> 0, llm |-> 0]
\* generate_one_liner has not run
NoOneLiner == [generator_metadata |-> NoneStr, value_prop |-> NoneStr, returned |-> NoneStr]

\* no request sent yet
NoRequests == [activities |-> 0, generator |-> 0, scorer |-> 0]
\* exit_code while the process runs
Running == -1

presentVars == <<shown, primary_restaurant, backup_restaurants>>
procVars == <<script, env, script_calls, one_liner>>
\* os.getenv / os.environ.get gives a value for each of `names`
AllSet(names) == \A c \in names : env[c]
vars == <<genVars, main_pc, tasks, calls, first_done, heap, faults, all_results, all_restaurants_flat,
          rankVars, outcome, presentVars, requests, exit_code, procVars>>

(***************************************************************************)
(* Step 1: the Preference Set.                                             *)
(***************************************************************************)
Preference(cuisine_type, location, budget) ==
    [cuisine_type |-> cuisine_type, location |-> location, budget |-> budget]

\* the Preference Sets of the filter specification
PreferenceSets ==
    { Preference(c, SanFrancisco, BudgetTwo) : c \in {Thai, Italian} }

\* the Preference Sets of the generator specification; the location is free
\* text and may be empty
GeneratorPreferences ==
    { Preference(c, l, b) : c \in {Thai, Italian, Mexican, FineDining},
                            l \in {SanFrancisco, Austin, <<>>},
                            b \in {BudgetOne, BudgetTwo} }

(***************************************************************************)
(* Step 2: generate_search_queries and main's fallback.                    *)
(***************************************************************************)
\* `x` as a condition, for a str or None
Truthy(s) == s # NoneStr /\ s # <<>>

\* [q.strip() for q in queries if q.strip()]
RECURSIVE StripNonBlank(_)
StripNonBlank(qs) ==
    IF qs = <<>> THEN <<>>
    ELSE IF Strip(Head(qs)) # <<>>
         THEN <<Strip(Head(qs))>> \o StripNonBlank(Tail(qs))
         ELSE StripNonBlank(Tail(qs))

\* a variant that keeps two queries instead of three
TruncatesToTwo(content) ==
    LET queries == IF Truthy(content) THEN Split(Strip(content), "\n") ELSE <<>>
        kept == StripNonBlank(queries)
    IN  SubSeq(kept, 1, Min(2, Len(kept)))

\* lines 79-83 of generate_search_queries
ParseQueries(content) ==
    LET queries == IF Truthy(content) THEN Split(Strip(content), "\n") ELSE <<>>
        kept == StripNonBlank(queries)
    IN  SubSeq(kept, 1, Min(MaxQueries, Len(kept)))

\* a variant of the fallback whose queries leave the location out
FallbackWithoutLocation(u) ==
    << u.cuisine_type \o StrRestaurantsIn \o u.location,
       u.cuisine_type \o StrSpace \o u.budget,
       StrBest \o u.cuisine_type \o StrRestaurants \o u.location >>

\* lines 316-320 of main
FallbackQueries(u) ==
    << u.cuisine_type \o StrRestaurantsIn \o u.location,
       u.cuisine_type \o StrSpace \o u.location \o StrSpace \o u.budget,
       StrBest \o u.cuisine_type \o StrRestaurants \o u.location >>

\* what the chat completion of generate_search_queries can give: it raises,
\* or message.content is None, empty, blank, or some lines of text
GeneratorContents ==
    { NoneStr,
      <<>>,
      <<" ", "\n", " ">>,
      <<"a">>,
      <<" ", "a", " ", "\n", "\n", "b", " ", "c", "\n">>,
      <<"a", "\n", "b", "\n", "c", "\n", "d">> }

GeneratorRaises == [content |-> NoneStr, raises |-> TRUE]
GeneratorSays(content) == [content |-> content, raises |-> FALSE]

\* the responses of the generator specification
GeneratorResponses ==
    { GeneratorRaises } \cup { GeneratorSays(c) : c \in GeneratorContents }

\* the responses of the pipeline specification: none, one or two generated
\* queries, or the three of the fallback
PipelineResponses ==
    { GeneratorRaises, GeneratorSays(NoneStr), GeneratorSays(<<"a">>),
      GeneratorSays(<<" ", "a", " ", "\n", "\n", "b", " ", "c", "\n">>) }

NoResponse == [content |-> <<"<pending>">>, raises |-> FALSE]

(***************************************************************************)
(* Step 3: run_single_search.                                              *)
(***************************************************************************)
NoResult == [status |-> "pending", query |-> <<>>, session_index |-> 0,
             restaurants |-> <<>>]

\* SearchResult(query=..., session_index=session_index + 1, restaurants=...)
SearchResult(query, session_index, restaurants) ==
    [status |-> "returned", query |-> query, session_index |-> session_index + 1,
     restaurants |-> restaurants]

\* a variant of the handler's result that keeps what the task had built
HandlerKeepsPartial(t) ==
    SearchResult(t.query, t.session_index, t.verified_restaurants)

\* lines 532-536: the Outcome the failure handler returns
HandlerResult(t) == SearchResult(t.query, t.session_index, <<>>)

\* lines 513-520: the Outcome of the success path
SuccessResult(t) == SearchResult(t.query, t.session_index, t.verified_restaurants)

\* the coroutine run_single_search(query, index, user_input), not yet started
NewTask(query, session_index) ==
    [i |-> 0, session |-> "none", query |-> query,
     session_index |-> session_index, verified_restaurants |-> <<>>, pc |-> "init", bound |-> FALSE,
     closes |-> 0, close_errors |-> 0, restaurants_list |-> 0,
     failing |-> FALSE, raised |-> FALSE, result |-> NoResult]

NoneScore == [t |-> "null", v |-> 0]

\* lines 481-496 (verified) and 503-511 (fallback): the Restaurant a task
\* builds; ai_score and ai_reason default to None (lines 37-38).  `writes`
\* counts the assignments to ai_score.
RatingNotVerified == <<"R","a","t","i","n","g"," ","n","o","t"," ","v","e","r","i","f","i","e","d">>
PriceNotVerified == <<"P","r","i","c","e"," ","n","o","t"," ","v","e","r","i","f","i","e","d">>
RatingNotAvailable == <<"R","a","t","i","n","g"," ","n","o","t"," ","a","v","a","i","l","a","b","l","e">>
PriceNotSpecified == <<"P","r","i","c","e"," ","n","o","t"," ","s","p","e","c","i","f","i","e","d">>

\* what the detail extraction gives for rating and price_range (line 479)
Detail(rating, price_range) == [rating |-> rating, price_range |-> price_range]
FullDetail == Detail(<<"4", ".", "5">>, <<"$", "$">>)
EmptyDetail == Detail(<<>>, <<>>)

\* `s or default` for a str
OrText(s, default) == IF s = <<>> THEN default ELSE s

Restaurant(verified, detail) ==
    [rating |-> IF verified THEN OrText(detail.rating, RatingNotAvailable)
                ELSE RatingNotVerified,
     price_range |-> IF verified THEN OrText(detail.price_range, PriceNotSpecified)
                     ELSE PriceNotVerified,
     verified |-> verified,
     ai_score |-> NoneScore, ai_reason |-> NoneStr, writes |-> 0]

NewRestaurant(verified) == Restaurant(verified, FullDetail)

\* a variant in which every search builds its Restaurants in the same places
SharedRestaurantId(t, i) == <<1, i>>

RestaurantId(t, i) == <<t.session_index + 1, i>>

MayFail == faults < MaxFaults

\* how many records an extraction call may return: any number up to
\* MaxRecordsAlone for a search that runs alone, none or MaxRecords for
\* searches that run side by side
ExtractCounts ==
    IF Len(tasks) = 1 THEN 0..MaxRecordsAlone ELSE {0, MaxRecords}

\* the details a record's page may give: with or without rating and price
\* for a search that runs alone, with both for searches that run side by side
Details == IF Len(tasks) = 1 THEN {FullDetail, EmptyDetail} ELSE {FullDetail}

\* a variant in which the loop over the records ends with the first append
AfterAppendLeaves(t, id) ==
    [t EXCEPT !.verified_restaurants = Append(@, id), !.i = @ + 1, !.pc = "aexit"]

\* a variant in which the failed navigation is issued again
EscapesToRetry(t) == [t EXCEPT !.pc = "goto", !.raised = TRUE]

\* the exception leaves the `async with` block: __aexit__ runs first
Escapes(t) ==
    [t EXCEPT !.pc = "aexit", !.failing = TRUE, !.raised = TRUE]

\* the name of the search result a candidate was built from (result.name,
\* lines 482 and 504): result i of every search names the same restaurant
Name(id) == id[2]

\* after an append at lines 481 / 503: next iteration or the return at 516
AfterAppend(t, id) ==
    LET n == Min(MaxVerified, t.restaurants_list)
    IN  [t EXCEPT !.verified_restaurants = Append(@, id),
                  !.i = @ + 1,
                  !.pc = IF t.i + 1 < n THEN "verify" ELSE "aexit"]

\* after restaurants_list is set (lines 398 / 402-437): line 446
AfterExtract(t, k) ==
    [t EXCEPT !.restaurants_list = k, !.i = 0,
              !.pc = IF Min(MaxVerified, k) > 0 THEN "verify" ELSE "aexit"]

\* lines 333-334 and 342: the config takes the Browserbase key and project id
\* from the environment (None when one is not set); no session is had
\* without them
HasBrowserbase == AllSet(BrowserbaseKeys)

\* line 356: Stagehand(config) and __aenter__
SessionInit(n) ==
    /\ tasks[n].pc = "init"
    /\ \/ /\ HasBrowserbase
          /\ tasks' = [tasks EXCEPT ![n] =
                         [@ EXCEPT !.pc = "goto", !.bound = TRUE, !.session = "open"]]
          /\ UNCHANGED faults
       \/ /\ MayFail \/ ~HasBrowserbase
          /\ tasks' = [tasks EXCEPT ![n] =
                         [@ EXCEPT !.pc = "handler", !.failing = TRUE, !.raised = TRUE]]
          /\ faults' = IF HasBrowserbase THEN faults + 1 ELSE faults
    /\ UNCHANGED heap

\* lines 375-377: goto the search page, wait_for_timeout
Navigate(n) ==
    /\ tasks[n].pc = "goto"
    /\ \/ /\ tasks' = [tasks EXCEPT ![n] = [@ EXCEPT !.pc = "extract"]]
          /\ UNCHANGED faults
       \/ /\ MayFail
          /\ tasks' = [tasks EXCEPT ![n] = Escapes(@)]
          /\ faults' = faults + 1
    /\ UNCHANGED heap

\* lines 391-402: the schema extraction; its failure starts the raw one
Extract(n) ==
    /\ tasks[n].pc = "extract"
    /\ \/ /\ \E k \in ExtractCounts :
               tasks' = [tasks EXCEPT ![n] = AfterExtract(@, k)]
          /\ UNCHANGED faults
       \/ /\ MayFail
          /\ tasks' = [tasks EXCEPT ![n] =
                         [@ EXCEPT !.pc = "raw", !.raised = TRUE]]
          /\ faults' = faults + 1
    /\ UNCHANGED heap

\* lines 403-437: the schema-less extraction; a failure leaves no records
RawExtract(n) ==
    /\ tasks[n].pc = "raw"
    /\ \/ /\ \E k \in ExtractCounts :
               tasks' = [tasks EXCEPT ![n] = AfterExtract(@, k)]
          /\ UNCHANGED faults
       \/ /\ MayFail
          /\ tasks' = [tasks EXCEPT ![n] =
                         AfterExtract([@ EXCEPT !.raised = TRUE], 0)]
          /\ faults' = faults + 1
    /\ UNCHANGED heap

\* lines 450-455: goto the record's page, wait_for_timeout
VerifyNavigate(n) ==
    /\ tasks[n].pc = "verify"
    /\ \/ /\ tasks' = [tasks EXCEPT ![n] = [@ EXCEPT !.pc = "detail"]]
          /\ UNCHANGED <<faults, heap>>
       \/ /\ MayFail
          /\ LET id == RestaurantId(tasks[n], tasks[n].i + 1)
             IN  /\ heap' = heap @@ (id :> NewRestaurant(FALSE))
                 /\ tasks' = [tasks EXCEPT ![n] =
                                AfterAppend([@ EXCEPT !.raised = TRUE], id)]
          /\ faults' = faults + 1

\* lines 474-511: the detail extraction and the Restaurant it gives
VerifyExtract(n) ==
    /\ tasks[n].pc = "detail"
    /\ LET id == RestaurantId(tasks[n], tasks[n].i + 1)
       IN  \/ /\ \E detail \in Details :
                    heap' = heap @@ (id :> Restaurant(TRUE, detail))
              /\ tasks' = [tasks EXCEPT ![n] = AfterAppend(@, id)]
              /\ UNCHANGED faults
           \/ /\ MayFail
              /\ heap' = heap @@ (id :> NewRestaurant(FALSE))
              /\ tasks' = [tasks EXCEPT ![n] =
                             AfterAppend([@ EXCEPT !.raised = TRUE], id)]
              /\ faults' = faults + 1

\* a variant in which leaving the block closes nothing
ExitWithoutClose(n) ==
    /\ tasks[n].pc = "aexit"
    /\ tasks' = [tasks EXCEPT ![n] =
                   IF @.failing THEN [@ EXCEPT !.pc = "handler"]
                   ELSE [@ EXCEPT !.pc = "done", !.result = SuccessResult(tasks[n])]]
    /\ UNCHANGED <<faults, heap>>

\* line 356, leaving the block: Stagehand.__aexit__ closes the session.  On
\* the return path its exception replaces the return value.
SessionExit(n) ==
    /\ tasks[n].pc = "aexit"
    /\ \/ /\ tasks' = [tasks EXCEPT ![n] =
                         IF @.failing
                         THEN [@ EXCEPT !.pc = "handler", !.session = "closed",
                                        !.closes = @ + 1]
                         ELSE [@ EXCEPT !.pc = "done", !.session = "closed",
                                        !.closes = @ + 1,
                                        !.result = SuccessResult(tasks[n])]]
          /\ UNCHANGED faults
       \/ /\ MayFail
          /\ tasks' = [tasks EXCEPT ![n] =
                         [@ EXCEPT !.pc = "handler", !.failing = TRUE,
                                   !.closes = @ + 1, !.close_errors = @ + 1,
                                   !.raised = TRUE]]
          /\ faults' = faults + 1
    /\ UNCHANGED heap

\* a variant of the handler that returns without the close of line 527
HandlerSkipsClose(n) ==
    /\ tasks[n].pc = "handler"
    /\ tasks' = [tasks EXCEPT ![n] =
                   [@ EXCEPT !.pc = "done", !.result = HandlerResult(tasks[n])]]
    /\ UNCHANGED <<faults, heap>>

\* lines 521-536: the failure handler; the close at 527 only when
\* session_stagehand is bound, its own exception swallowed at 529
Handler(n) ==
    /\ tasks[n].pc = "handler"
    /\ IF tasks[n].bound
       THEN \/ /\ tasks' = [tasks EXCEPT ![n] =
                              [@ EXCEPT !.pc = "done", !.session = "closed",
                                        !.closes = @ + 1,
                                        !.result = HandlerResult(tasks[n])]]
               /\ UNCHANGED faults
            \/ /\ MayFail
               /\ tasks' = [tasks EXCEPT ![n] =
                              [@ EXCEPT !.pc = "done", !.closes = @ + 1,
                                        !.close_errors = @ + 1,
                                        !.result = HandlerResult(tasks[n])]]
               /\ faults' = faults + 1
       ELSE /\ tasks' = [tasks EXCEPT ![n] =
                           [@ EXCEPT !.pc = "done", !.result = HandlerResult(tasks[n])]]
            /\ UNCHANGED faults
    /\ UNCHANGED heap

\* no external call issued yet
NoCalls == [extract |-> 0, acquire |-> 0, goto |-> 0, detail_goto |-> 0,
            detail_extract |-> 0, close |-> 0]

\* the external call a coroutine issues next: Stagehand(config) and its
\* entry (356), page.goto for the query (376), page.extract of the results
\* (392, 406), page.goto and page.extract for a record (452, 474), and the
\* close of the session (__aexit__ at 356, close() at 527)
Operation(t) ==
    CASE t.pc = "init" -> "acquire"
      [] t.pc = "goto" -> "goto"
      [] t.pc \in {"extract", "raw"} -> "extract"
      [] t.pc = "verify" -> "detail_goto"
      [] t.pc = "detail" -> "detail_extract"
      [] t.pc = "aexit" -> "close"
      [] t.pc = "handler" -> IF t.bound THEN "close" ELSE "none"
      [] OTHER -> "none"

Called(c, op) == IF op = "none" THEN c ELSE [c EXCEPT ![op] = @ + 1]

\* a variant in which a failing search stops its siblings
RunnableUntilFailure(n) ==
    /\ n \in 1..Len(tasks)
    /\ main_pc = "gather"
    /\ \A m \in 1..Len(tasks) : m # n => ~tasks[m].failing

\* lines 539-545: the coroutines run while main is suspended in the joint
\* await; nothing cancels one of them
Runnable(n) == n \in 1..Len(tasks) /\ main_pc = "gather"

TaskStep(n) ==
    /\ Runnable(n)
    /\ \/ SessionInit(n)
       \/ Navigate(n)
       \/ Extract(n)
       \/ RawExtract(n)
       \/ VerifyNavigate(n)
       \/ VerifyExtract(n)
       \/ SessionExit(n)
       \/ Handler(n)
    /\ calls' = [calls EXCEPT ![n] = Called(@, Operation(tasks[n]))]
    /\ first_done' = IF first_done = 0 /\ tasks'[n].pc = "done" THEN n
                      ELSE first_done
    /\ UNCHANGED <<genVars, main_pc, all_results, all_restaurants_flat, rankVars,
                   outcome, presentVars, requests, exit_code, procVars>>


(***************************************************************************)
(* Step 4: score_restaurants.                                              *)
(*                                                                         *)
(* A score is what json.loads gives for the "score" key: an int, a float   *)
(* (in tenths), a str or None; "missing" is an entry without the key.      *)
(***************************************************************************)
IntScore(n) == [t |-> "int", v |-> n]
FloatScore(tenths) == [t |-> "float", v |-> tenths]
StrScore == [t |-> "str", v |-> 0]
MissingScore == [t |-> "missing", v |-> 0]
MissingStr == <<"<missing>">>

NoScoringAvailable == <<"N","o"," ","s","c","o","r","i","n","g"," ","a","v","a","i","l","a","b","l","e">>
ScoringFailed == <<"S","c","o","r","i","n","g"," ","f","a","i","l","e","d"," ","-"," ","u","s","i","n","g"," ","n","e","u","t","r","a","l"," ","s","c","o","r","e">>
\* restaurant.ai_score = 5 in the fallback
NeutralScore == 5

\* one element of the parsed reply: a JSON object with its keys, or anything
\* else (a number, a string, a key of a JSON object being iterated)
Entry(idx, score, reason) ==
    [score |-> score, reason |-> reason, obj |-> TRUE, restaurantIndex |-> idx]
NonObject ==
    [score |-> MissingScore, reason |-> MissingStr, obj |-> FALSE, restaurantIndex |-> 0]

\* the chat completion of score_restaurants: it raises, or message.content is
\* None ("none"), no JSON ("invalid"), a JSON number/true/null ("scalar"), a
\* JSON object whose keys are `items` ("object"), or a JSON array of `items`
RaisingReply == [raises |-> TRUE, json |-> "invalid", items |-> <<>>]
Reply(json, items) == [raises |-> FALSE, json |-> json, items |-> items]
NoReply == [raises |-> FALSE, json |-> "pending", items |-> <<>>]

IsNum(s) == s.t \in {"int", "float"}
\* the value of a number, in tenths
Num(s) == IF s.t = "int" THEN 10 * s.v ELSE s.v
\* `not x` for a score
Falsy(s) == s.t = "null" \/ (IsNum(s) /\ s.v = 0)
\* x.ai_score or 0
OrZero(s) == IF Falsy(s) THEN IntScore(0) ELSE s
\* whether Python orders the two values (int and float with each other, str
\* with str); otherwise `<` raises TypeError
Comparable(a, b) == (IsNum(a) /\ IsNum(b)) \/ (a.t = "str" /\ b.t = "str")
Less(a, b) == Num(a) < Num(b)

\* a variant that takes the element at place `ord` of the reply
ScoreInfoByPlace(items, ord) ==
    IF ord > Len(items) THEN [st |-> "none", item |-> NonObject]
    ELSE IF ~items[ord].obj THEN [st |-> "raise", item |-> NonObject]
    ELSE [st |-> "found", item |-> items[ord]]

\* a variant that takes the last element with the ordinal
RECURSIVE ScoreInfoLast(_, _)
ScoreInfoLast(items, ord) ==
    IF items = <<>> THEN [st |-> "none", item |-> NonObject]
    ELSE IF ~items[Len(items)].obj THEN [st |-> "raise", item |-> NonObject]
    ELSE IF items[Len(items)].restaurantIndex = ord
         THEN [st |-> "found", item |-> items[Len(items)]]
         ELSE ScoreInfoLast(SubSeq(items, 1, Len(items) - 1), ord)

\* line 177: next((s for s in scores_data if s.get("restaurantIndex") == ord),
\* None); s.get raises on an element that is no object
RECURSIVE ScoreInfo(_, _)
ScoreInfo(items, ord) ==
    IF items = <<>> THEN [st |-> "none", item |-> NonObject]
    ELSE IF ~Head(items).obj THEN [st |-> "raise", item |-> NonObject]
    ELSE IF Head(items).restaurantIndex = ord THEN [st |-> "found", item |-> Head(items)]
    ELSE ScoreInfo(Tail(items), ord)

\* a variant that also resets the verification of the candidate it scores
AnnotateUnverifies(h, id, info) ==
    [h EXCEPT ![id] = [@ EXCEPT !.ai_score = IntScore(0), !.ai_reason = NoScoringAvailable,
                                !.writes = @ + 1, !.verified = FALSE,
                                !.rating = RatingNotVerified]]

\* lines 178-179
AnnotateOne(h, id, info) ==
    LET score == IF info.st = "found" /\ info.item.score # MissingScore
                 THEN info.item.score ELSE IntScore(0)
        reason == IF info.st = "found" /\ info.item.reason # MissingStr
                  THEN info.item.reason ELSE NoScoringAvailable
    IN  [h EXCEPT ![id] = [@ EXCEPT !.ai_score = score, !.ai_reason = reason,
                                    !.writes = @ + 1]]

\* lines 176-180 from position `index` on; it stops where line 177 raises
RECURSIVE Annotate(_, _, _, _)
Annotate(restaurants, index, items, h) ==
    IF index > Len(restaurants) THEN [heap |-> h, raised |-> FALSE]
    ELSE LET info == ScoreInfo(items, index)
         IN  IF info.st = "raise" THEN [heap |-> h, raised |-> TRUE]
             ELSE Annotate(restaurants, index + 1, items,
                           AnnotateOne(h, restaurants[index], info))

\* lines 190-192
RECURSIVE FallbackScores(_, _)
FallbackScores(restaurants, h) ==
    IF restaurants = <<>> THEN h
    ELSE FallbackScores(Tail(restaurants),
            [h EXCEPT ![Head(restaurants)] =
                [@ EXCEPT !.ai_score = IntScore(NeutralScore),
                          !.ai_reason = ScoringFailed, !.writes = @ + 1]])

\* list.sort raises TypeError when two of the keys cannot be ordered
SortRaises(restaurants, h) ==
    \E i, j \in 1..Len(restaurants) :
       ~Comparable(OrZero(h[restaurants[i]].ai_score),
                   OrZero(h[restaurants[j]].ai_score))

\* a variant that inserts by ascending key
RECURSIVE InsertAscending(_, _, _)
InsertAscending(sorted, id, h) ==
    IF sorted = <<>> THEN <<id>>
    ELSE IF Less(OrZero(h[id].ai_score), OrZero(h[Head(sorted)].ai_score))
         THEN <<id>> \o sorted
         ELSE <<Head(sorted)>> \o InsertAscending(Tail(sorted), id, h)

\* a variant that puts an element in front of its equals
RECURSIVE InsertUnstable(_, _, _)
InsertUnstable(sorted, id, h) ==
    IF sorted = <<>> THEN <<id>>
    ELSE IF ~Less(OrZero(h[id].ai_score), OrZero(h[Head(sorted)].ai_score))
         THEN <<id>> \o sorted
         ELSE <<Head(sorted)>> \o InsertUnstable(Tail(sorted), id, h)

\* the place of `id` in a list sorted by key descending: behind every element
\* whose key is not smaller (the sort is stable, also with reverse=True)
RECURSIVE InsertDescending(_, _, _)
InsertDescending(sorted, id, h) ==
    IF sorted = <<>> THEN <<id>>
    ELSE IF Less(OrZero(h[Head(sorted)].ai_score), OrZero(h[id].ai_score))
         THEN <<id>> \o sorted
         ELSE <<Head(sorted)>> \o InsertDescending(Tail(sorted), id, h)

\* a sort by ascending key
RECURSIVE SortAscending(_, _)
SortAscending(restaurants, h) ==
    IF restaurants = <<>> THEN <<>>
    ELSE LET front == SortAscending(SubSeq(restaurants, 1, Len(restaurants) - 1), h)
         IN  InsertAscending(front, restaurants[Len(restaurants)], h)

\* a sort by descending key that reverses equal elements
RECURSIVE SortUnstable(_, _)
SortUnstable(restaurants, h) ==
    IF restaurants = <<>> THEN <<>>
    ELSE LET front == SortUnstable(SubSeq(restaurants, 1, Len(restaurants) - 1), h)
         IN  InsertUnstable(front, restaurants[Len(restaurants)], h)

\* line 183: scored_restaurants.sort(key=lambda x: x.ai_score or 0, reverse=True)
RECURSIVE SortByScore(_, _)
SortByScore(restaurants, h) ==
    IF restaurants = <<>> THEN <<>>
    ELSE LET front == SortByScore(SubSeq(restaurants, 1, Len(restaurants) - 1), h)
         IN  InsertDescending(front, restaurants[Len(restaurants)], h)

\* lines 99-193.  raised: the exception leaves score_restaurants
ScoreRestaurants(restaurants, h, reply) ==
    LET fallback(hh) == [heap |-> FallbackScores(restaurants, hh), raised |-> FALSE,
                         result |-> restaurants]
    IN  IF Len(restaurants) = 0
        THEN [heap |-> h, raised |-> FALSE, result |-> <<>>]
        ELSE IF reply.raises
        THEN [heap |-> h, raised |-> TRUE, result |-> <<>>]
        ELSE IF reply.json \in {"invalid", "scalar"}
        THEN fallback(h)
        ELSE LET a == Annotate(restaurants, 1, reply.items, h)
             IN  IF a.raised \/ SortRaises(restaurants, a.heap)
                 THEN fallback(a.heap)
                 ELSE [heap |-> a.heap, raised |-> FALSE,
                       result |-> SortByScore(restaurants, a.heap)]

(***************************************************************************)
(* Filter and selection, lines 568-595 of main.                            *)
(***************************************************************************)
StrNot == <<"n","o","t"," ">>
StrCuisineSuffix == <<" ","c","u","i","s","i","n","e">>
StrDoesntMatch == <<"d","o","e","s","n","'","t"," ","m","a","t","c","h"," ","c","u","i","s","i","n","e">>
StrWrongCuisine == <<"w","r","o","n","g"," ","c","u","i","s","i","n","e">>
\* MIN_SCORE_THRESHOLD
MinScoreThreshold == 5
\* filtered_restaurants[:3]
TopCount == 3

\* lines 581-586
MismatchIndicators(cuisine_type) ==
    LET lc == Lower(cuisine_type)
        stem == IF lc # <<>> /\ lc[Len(lc)] = "n"
                THEN SubSeq(lc, 1, Len(lc) - 1) ELSE lc
    IN  << StrNot \o lc, StrDoesntMatch, StrWrongCuisine,
           StrNot \o stem \o StrCuisineSuffix >>

\* (restaurant.ai_reason or "")
OrEmpty(s) == IF s = NoneStr THEN <<>> ELSE s

\* line 587
Mismatch(reason, cuisine_type) ==
    LET indicators == MismatchIndicators(cuisine_type)
    IN  \E k \in 1..Len(indicators) : Contains(reason, indicators[k])

\* a variant that also excludes the threshold itself
BelowThresholdStrict(score) == Num(score) <= 10 * MinScoreThreshold

\* line 577: score < MIN_SCORE_THRESHOLD
BelowThreshold(score) == Num(score) < 10 * MinScoreThreshold

\* lines 571-590.  raised: `score < 5` raises TypeError on a str score
RECURSIVE FilterRestaurants(_, _, _)
FilterRestaurants(scored, h, u) ==
    IF scored = <<>> THEN [kept |-> <<>>, raised |-> FALSE]
    ELSE LET score == OrZero(h[Head(scored)].ai_score)
             reason == Lower(OrEmpty(h[Head(scored)].ai_reason))
             rest == FilterRestaurants(Tail(scored), h, u)
         IN  IF ~IsNum(score) THEN [kept |-> <<>>, raised |-> TRUE]
             ELSE IF BelowThreshold(score) \/ Mismatch(reason, u.cuisine_type)
             THEN rest
             ELSE [kept |-> IF rest.raised THEN <<>> ELSE <<Head(scored)>> \o rest.kept,
                   raised |-> rest.raised]

\* a variant that ranks two survivors
TopTwo(filtered) == SubSeq(filtered, 1, Min(2, Len(filtered)))

\* line 595
TopThree(filtered) == SubSeq(filtered, 1, Min(TopCount, Len(filtered)))

(***************************************************************************)
(* main.                                                                   *)
(***************************************************************************)
\* lines 301-321 and 539: the generator's response, drawn from `responses`
\* (or main's fallback) becomes search_queries, and one coroutine per query
\* is handed to asyncio.gather
GenerateQueries(responses) ==
    /\ main_pc = "generate"
    /\ \E r \in responses :
         LET qs == IF r.raises THEN FallbackQueries(user_input)
                   ELSE ParseQueries(r.content)
         IN  /\ gen_response' = r
             /\ search_queries' = qs
             /\ tasks' = [n \in 1..Len(qs) |-> NewTask(qs[n], n - 1)]
             /\ calls' = [n \in 1..Len(qs) |-> NoCalls]
    /\ main_pc' = "gather"
    /\ requests' = [requests EXCEPT !.generator = @ + 1]
    /\ UNCHANGED <<user_input, first_done, heap, faults, all_results,
                   all_restaurants_flat, rankVars, outcome, presentVars, exit_code, procVars>>

\* a variant that puts the later searches first
RECURSIVE FlattenReversed(_)
FlattenReversed(results) ==
    IF results = <<>> THEN <<>>
    ELSE FlattenReversed(Tail(results)) \o Head(results).restaurants

\* a variant that stops at the first search without candidates
RECURSIVE FlattenUntilEmpty(_)
FlattenUntilEmpty(results) ==
    IF results = <<>> \/ Head(results).restaurants = <<>> THEN <<>>
    ELSE Head(results).restaurants \o FlattenUntilEmpty(Tail(results))

\* lines 552-554: all_restaurants_flat.extend(result.restaurants) per result
RECURSIVE Flatten(_)
Flatten(results) ==
    IF results = <<>> THEN <<>>
    ELSE Head(results).restaurants \o Flatten(Tail(results))

\* a variant that goes on as soon as one coroutine has returned
AnyReturned == \E n \in 1..Len(tasks) : tasks[n].pc = "done"

\* line 545: await asyncio.gather(*search_promises) returns when every
\* coroutine has returned
AllReturned == \A n \in 1..Len(tasks) : tasks[n].pc = "done"

\* a variant in which main calls score_restaurants whatever was found
GatherAlwaysScores ==
    /\ main_pc = "gather"
    /\ AllReturned
    /\ all_results' = [n \in 1..Len(tasks) |-> tasks[n].result]
    /\ all_restaurants_flat' = Flatten(all_results')
    /\ main_pc' = "score"
    /\ UNCHANGED <<genVars, tasks, calls, first_done, heap, faults, rankVars, presentVars, requests,
                   exit_code, procVars, outcome>>

\* lines 545-557 and 679-685: asyncio.gather returns once every task has
\* returned (it re-raises the first exception of a task), the results are
\* flattened, and with nothing found main ends
Gather ==
    /\ main_pc = "gather"
    /\ AllReturned
    /\ IF \E n \in 1..Len(tasks) : tasks[n].result.status = "raised"
       THEN /\ main_pc' = "exit"
            /\ outcome' = "application_error"
            /\ UNCHANGED <<all_results, all_restaurants_flat>>
       ELSE LET results == [n \in 1..Len(tasks) |-> tasks[n].result]
                flat == Flatten(results)
            IN  /\ all_results' = results
                /\ all_restaurants_flat' = flat
                /\ main_pc' = IF Len(flat) > 0 THEN "score" ELSE "exit"
                /\ outcome' = IF Len(flat) > 0 THEN outcome ELSE "none_found"
    /\ UNCHANGED <<genVars, tasks, calls, first_done, heap, faults, rankVars, presentVars, requests,
                   exit_code, procVars>>

\* a variant in which main starts over after a scoring error
SearchAgainAfterScoringError == "generate"

\* lines 674-685: after the except clause nothing is left to run in main
AfterScoringError == "exit"

\* lines 559-566 and 674-678: the call of score_restaurants with the reply
\* drawn from `replies`; an exception leaving it is caught by main
Score(replies) ==
    /\ main_pc = "score"
    /\ \E reply \in replies :
         \E r \in { ScoreRestaurants(all_restaurants_flat, heap, reply) } :
             /\ response' = reply
             /\ heap' = r.heap
             /\ IF r.raised
                THEN /\ main_pc' = AfterScoringError
                     /\ outcome' = "scoring_error"
                     /\ UNCHANGED scored_restaurants
                ELSE /\ main_pc' = "filter"
                     /\ scored_restaurants' = r.result
                     /\ UNCHANGED outcome
    /\ requests' = [requests EXCEPT !.scorer = @ + 1]
    /\ UNCHANGED <<genVars, tasks, calls, first_done, faults, all_results, all_restaurants_flat,
                   filtered_restaurants, top3_restaurants, activities, activity_call,
                   presentVars,
                   exit_code, procVars>>

\* no Restaurant (None)
NoRestaurant == <<0, 0>>
\* line 616: top3_restaurants[1:3] if len(top3_restaurants) > 1 else []
Backups(top3) == IF Len(top3) > 1 THEN SubSeq(top3, 2, Min(3, Len(top3))) ELSE <<>>

\* lines 568-616: filter, top 3, the early return without survivors (the
\* first three scored candidates are listed, lines 597-609), and otherwise the
\* choice of the primary and the backups
Filter ==
    /\ main_pc = "filter"
    /\ \E f \in { FilterRestaurants(scored_restaurants, heap, user_input) } :
           IF f.raised
           THEN /\ main_pc' = "exit"
                /\ outcome' = "scoring_error"
                /\ UNCHANGED <<filtered_restaurants, top3_restaurants, presentVars>>
           ELSE LET top3 == TopThree(f.kept)
                IN  /\ filtered_restaurants' = f.kept
                    /\ top3_restaurants' = top3
                    /\ IF Len(top3) = 0
                       THEN /\ shown' = TopThree(scored_restaurants)
                            /\ main_pc' = "exit"
                            /\ outcome' = "no_good_match"
                            /\ UNCHANGED <<primary_restaurant, backup_restaurants>>
                       ELSE /\ primary_restaurant' = top3[1]
                            /\ backup_restaurants' = Backups(top3)
                            /\ main_pc' = "activities"
                            /\ UNCHANGED <<shown, outcome>>
    /\ UNCHANGED <<genVars, tasks, calls, first_done, heap, faults, all_results, all_restaurants_flat,
                   response, scored_restaurants, activities, activity_call,
                   requests, exit_code, procVars>>

\* line 279: the activities returned when the request or its parsing fails
ActivityFallback ==
    << <<"W","a","l","k"," ","i","n"," ","t","h","e"," ","n","e","i","g","h","b","o","r","h","o","o","d">>,
       <<"V","i","s","i","t"," ","a"," ","n","e","a","r","b","y"," ","p","a","r","k">>,
       <<"C","h","e","c","k"," ","o","u","t"," ","l","o","c","a","l"," ","s","h","o","p","s">> >>

\* a variant that returns no activity when the request raised
NoActivityOnFailure(reply) ==
    IF reply.raises \/ reply.content = NoneStr THEN <<>>
    ELSE StripNonBlank(Split(Strip(reply.content), "\n"))

\* lines 260-279: the reply's non-blank lines, stripped; the fallback when
\* the request raises or message.content is None (None.strip() raises)
NearbyActivities(reply) ==
    IF reply.raises \/ reply.content = NoneStr THEN ActivityFallback
    ELSE StripNonBlank(Split(Strip(reply.content), "\n"))

\* the replies to the nearby-activities request: it raises, or gives no
\* content, three lines with blanks around them, or an empty text
ActivityReplies ==
    { GeneratorRaises, GeneratorSays(NoneStr), GeneratorSays(<<>>),
      GeneratorSays(<<" ", "a", "\n", "\n", "b", " ", "\n", "c">>) }

\* before line 665: activities is not assigned, no request was sent
NoActivities == <<NoneStr>>
NoActivityCall == [content |-> NoneStr, raises |-> FALSE, restaurant |-> NoRestaurant]

\* find_nearby_activities(primary_restaurant), lines 258-279 and 662-673
FindNearbyActivities ==
    /\ main_pc = "activities"
    /\ \E reply \in ActivityReplies :
          /\ activity_call' = [content |-> reply.content, raises |-> reply.raises,
                               restaurant |-> primary_restaurant]
          /\ activities' = NearbyActivities(reply)
    /\ main_pc' = "exit"
    /\ outcome' = "planned"
    /\ requests' = [requests EXCEPT !.activities = @ + 1]
    /\ UNCHANGED <<genVars, tasks, calls, first_done, heap, faults, all_results, all_restaurants_flat,
                   response, scored_restaurants, filtered_restaurants,
                   top3_restaurants, presentVars, exit_code, procVars>>

(***************************************************************************)
(* What the external calls give.                                           *)
(***************************************************************************)
ReasonGood == <<"G","r","e","a","t"," ","f","i","t">>
ReasonNotThai == <<"N","o","t"," ","T","h","a","i"," ","f","o","o","d">>
ReasonWrong == <<"W","R","O","N","G"," ","C","U","I","S","I","N","E">>
ReasonNotItalia == <<"i","s"," ","n","o","t"," ","I","t","a","l","i","a"," ","c","u","i","s","i","n","e">>
ReasonDoesnt == <<"D","o","e","s","n","'","t"," ","m","a","t","c","h"," ","c","u","i","s","i","n","e">>

SeqsUpTo(S, n) == UNION { [1..k -> S] : k \in 0..n }

\* a reply with one entry per candidate, in order, with the given scores
Complete(scores, reason) ==
    Reply("array", [i \in 1..Len(scores) |-> Entry(i, IntScore(scores[i]), reason)])

\* the replies of the pipeline specification, for n candidates
PipelineReplies(n) ==
    { RaisingReply,
      Reply("invalid", <<>>),
      Complete([i \in 1..n |-> 8], ReasonGood),
      Complete([i \in 1..n |-> 3], ReasonGood),
      Complete([i \in 1..n |-> 4 + i], ReasonGood),
      Complete([i \in 1..n |-> 8], ReasonNotThai) }

\* lines 687-700: asyncio.run(main()) has returned and the interpreter ends
\* with status 0, or an exception left main and exit(1) is called
ProcessExit ==
    /\ main_pc = "exit"
    /\ exit_code = Running
    /\ exit_code' = IF outcome = "application_error" THEN 1 ELSE 0
    /\ UNCHANGED <<genVars, main_pc, tasks, calls, first_done, heap, faults, all_results,
                   all_restaurants_flat, rankVars, outcome, presentVars, requests,
                   procVars>>

\* the state of a process of script `s` with the credentials `e`, at `pc`
Start(s, e, pc) ==
    /\ user_input = Preference(Thai, SanFrancisco, BudgetTwo)
    /\ main_pc = pc
    /\ gen_response = NoResponse
    /\ search_queries = <<>>
    /\ tasks = <<>>
    /\ calls = <<>>
    /\ first_done = 0
    /\ heap = <<>>
    /\ faults = 0
    /\ all_results = <<>>
    /\ all_restaurants_flat = <<>>
    /\ response = NoReply
    /\ scored_restaurants = <<>>
    /\ filtered_restaurants = <<>>
    /\ top3_restaurants = <<>>
    /\ activities = NoActivities
    /\ activity_call = NoActivityCall
    /\ outcome = "running"
    /\ shown = <<>>
    /\ primary_restaurant = NoRestaurant
    /\ backup_restaurants = <<>>
    /\ requests = NoRequests
    /\ exit_code = Running
    /\ script = s
    /\ env = Environment(e)
    /\ script_calls = NoScriptCalls
    /\ one_liner = NoOneLiner

(***************************************************************************)
(* The processes: what runs before main, what ends the process, and the    *)
(* two other scripts whose top level the date-planner's is compared with.  *)
(***************************************************************************)
\* the credentials a script reads
Required(s) ==
    BrowserbaseKeys \cup {IF s = GeminiCua THEN "GOOGLE_API_KEY" ELSE "OPENAI_API_KEY"}

\* date-planner line 47 and one-liner-generator line 37: client = OpenAI()
\* at module level raises without OPENAI_API_KEY; nothing catches it and the
\* interpreter ends with status 1
CreateClient ==
    /\ script \in {DatePlanner, OneLinerGenerator}
    /\ main_pc = "import"
    /\ IF env["OPENAI_API_KEY"]
       THEN /\ main_pc' = IF script = DatePlanner THEN "generate" ELSE "session"
            /\ UNCHANGED <<outcome, exit_code>>
       ELSE /\ main_pc' = "exit"
            /\ outcome' = "import_error"
            /\ exit_code' = 1
    /\ UNCHANGED <<genVars, tasks, calls, first_done, heap, faults, all_results,
                   all_restaurants_flat, rankVars, presentVars, requests, procVars>>

\* gemini-cua lines 12-36: validate_env_vars() at module level, exit(1) when
\* one of the three variables is not set
ValidateEnvVars ==
    /\ script = GeminiCua
    /\ main_pc = "import"
    /\ IF AllSet(Required(GeminiCua))
       THEN /\ main_pc' = "session"
            /\ UNCHANGED <<outcome, exit_code>>
       ELSE /\ main_pc' = "exit"
            /\ outcome' = "config_error"
            /\ exit_code' = 1
    /\ UNCHANGED <<genVars, tasks, calls, first_done, heap, faults, all_results,
                   all_restaurants_flat, rankVars, presentVars, requests, procVars>>

\* gemini-cua lines 82-83 and 126-128, one-liner-generator lines 61-62 and
\* 187-190: the session is requested inside the try; an exception is printed
\* and raised again, up to the top level
ScriptSession ==
    /\ script \in {GeminiCua, OneLinerGenerator}
    /\ main_pc = "session"
    /\ script_calls' = [script_calls EXCEPT !.session = @ + 1]
    /\ \/ /\ HasBrowserbase
          /\ main_pc' = "work"
          /\ UNCHANGED outcome
       \/ /\ main_pc' = "exit"
          /\ outcome' = "application_error"
    /\ UNCHANGED <<genVars, tasks, calls, first_done, heap, faults, all_results,
                   all_restaurants_flat, rankVars, presentVars, requests, exit_code,
                   script, env, one_liner>>

\* gemini-cua lines 91-128: goto, the agent and agent.execute; the run ends
\* normally whether result.success or not, and an exception is raised again
AgentExecute ==
    /\ script = GeminiCua
    /\ main_pc = "work"
    /\ main_pc' = "exit"
    /\ \/ /\ outcome' \in {"completed", "incomplete", "application_error"}
          /\ script_calls' = [script_calls EXCEPT !.llm = @ + 1]
       \/ /\ outcome' = "application_error"
          /\ UNCHANGED script_calls
    /\ UNCHANGED <<genVars, tasks, calls, first_done, heap, faults, all_results,
                   all_restaurants_flat, rankVars, presentVars, requests, exit_code,
                   script, env, one_liner>>

\* one-liner-generator lines 17-35: unwanted_patterns
UnwantedPatterns ==
    << <<"g","o","d","a","d","d","y">>,
       <<"w","o","r","d","p","r","e","s","s">>,
       <<"d","n","s">>,
       <<"d","o","m","a","i","n"," ","s","e","t","u","p">>,
       <<"d","o","m","a","i","n"," ","r","e","g","i","s","t","r","a","t","i","o","n">>,
       <<"n","a","m","e","s","e","r","v","e","r">>,
       <<"d","o","m","a","i","n"," ","p","a","r","k","i","n","g">>,
       <<"d","o","m","a","i","n"," ","f","o","r"," ","s","a","l","e">>,
       <<"c","o","m","i","n","g"," ","s","o","o","n">>,
       <<"u","n","d","e","r"," ","c","o","n","s","t","r","u","c","t","i","o","n">>,
       <<"w","e","b","s","i","t","e"," ","c","o","m","i","n","g"," ","s","o","o","n">>,
       <<"p","a","g","e"," ","n","o","t"," ","f","o","u","n","d">>,
       <<"e","r","r","o","r"," ","4","0","4">>,
       <<"s","i","t","e"," ","m","a","i","n","t","e","n","a","n","c","e">>,
       <<"t","e","m","p","o","r","a","r","i","l","y"," ","u","n","a","v","a","i","l","a","b","l","e">>,
       <<"d","e","f","a","u","l","t"," ","p","a","g","e">>,
       <<"t","h","i","s"," ","d","o","m","a","i","n"," ","i","s"," ","f","o","r"," ","s","a","l","e">> >>

\* line 102: what is returned for a GoDaddy placeholder
GenericOneLiner == <<"y","o","u","r"," ","w","e","b","s","i","t","e","."," ","E","x","c","i","t","e","d"," ","t","o"," ","s","e","e"," ","w","h","a","t"," ","y","o","u"," ","a","l","l"," ","e","n","d"," ","u","p"," ","p","u","t","t","i","n","g"," ","t","o","g","e","t","h","e","r">>

\* line 99: generator_metadata and "go daddy" in generator_metadata.lower()
IsGoDaddy(generator_metadata) ==
    Truthy(generator_metadata) /\ Contains(Lower(generator_metadata), <<"g","o"," ","d","a","d","d","y">>)

\* lines 115-119: not value_prop or value_prop.lower() in ("null", "undefined")
NoValueProp(value_prop) ==
    \/ value_prop = <<>>
    \/ Lower(value_prop) = <<"n","u","l","l">>
    \/ Lower(value_prop) = <<"u","n","d","e","f","i","n","e","d">>

\* lines 126-129: a pattern of unwanted_patterns is in value_prop.lower()
MatchedPattern(value_prop) ==
    \E k \in 1..Len(UnwantedPatterns) : Contains(Lower(value_prop), UnwantedPatterns[k])

\* lines 169-178: the stripped reply is empty, "null", "undefined" or
\* "your company"
InvalidOneLiner(text) ==
    \/ text = <<>>
    \/ Lower(text) \in { <<"n","u","l","l">>, <<"u","n","d","e","f","i","n","e","d">>,
                         <<"y","o","u","r"," ","c","o","m","p","a","n","y">> }

\* a variant that asks the model before it looks at the value proposition
OneLinerAsksFirst(meta, page, reply) ==
    LET ran(raised, returned, extracts, llms) ==
            [extract |-> extracts, llm |-> llms, returned |-> returned, raised |-> raised]
    IN  IF IsGoDaddy(meta) THEN ran(FALSE, GenericOneLiner, 0, 0)
        ELSE IF page.raises THEN ran(TRUE, NoneStr, 1, 0)
        ELSE IF reply.raises THEN ran(TRUE, NoneStr, 1, 1)
        ELSE IF NoValueProp(page.content) \/ MatchedPattern(page.content)
        THEN ran(TRUE, NoneStr, 1, 1)
        ELSE ran(FALSE, Strip(OrEmpty(reply.content)), 1, 1)

\* lines 89-185 of generate_one_liner, given the generator meta tag (None
\* when page.evaluate raised), what page.extract gives and what the chat
\* completion gives: whether it raises, what it returns, and the
\* extractions and model requests it issued
OneLinerRun(meta, page, reply) ==
    LET ran(raised, returned, extracts, llms) ==
            [extract |-> extracts, llm |-> llms, returned |-> returned, raised |-> raised]
    IN  IF IsGoDaddy(meta) THEN ran(FALSE, GenericOneLiner, 0, 0)
        ELSE IF page.raises THEN ran(TRUE, NoneStr, 1, 0)
        ELSE IF NoValueProp(page.content) \/ MatchedPattern(page.content)
        THEN ran(TRUE, NoneStr, 1, 0)
        ELSE IF reply.raises THEN ran(TRUE, NoneStr, 1, 1)
        ELSE IF InvalidOneLiner(Strip(OrEmpty(reply.content)))
        THEN ran(TRUE, NoneStr, 1, 1)
        ELSE ran(FALSE, Strip(OrEmpty(reply.content)), 1, 1)

\* the generator meta tags: none, GoDaddy's in two spellings, another one
GeneratorMetadata ==
    { NoneStr, <<"G","o"," ","D","a","d","d","y"," ","W","e","b","s","i","t","e"," ","B","u","i","l","d","e","r">>, <<"G","o","D","a","d","d","y">>, <<"W","o","r","d","P","r","e","s","s">> }

\* what page.extract gives: it raises, or a value proposition that is empty,
\* "NULL", a placeholder text, or a real one
ValueProps ==
    { GeneratorRaises, GeneratorSays(<<>>), GeneratorSays(<<"N","U","L","L">>),
      GeneratorSays(<<"C","o","m","i","n","g"," ","S","o","o","n">>), GeneratorSays(<<"H","o","s","t","e","d"," ","D","N","S">>),
      GeneratorSays(<<"A","I"," ","r","e","s","e","a","r","c","h">>) }

\* what the chat completion gives: it raises, no content, the placeholder
\* answer, or a one-liner with blanks around it
OneLinerReplies ==
    { GeneratorRaises, GeneratorSays(NoneStr), GeneratorSays(<<"Y","o","u","r"," ","C","o","m","p","a","n","y">>),
      GeneratorSays(<<" ","y","o","u","r"," ","A","I"," ","r","e","s","e","a","r","c","h"," ","\n">>) }

\* one-liner-generator lines 73-190 and 200-214: generate_one_liner after the
\* navigation; main prints the one-liner, or catches the exception and calls
\* exit(1)
GenerateOneLiner ==
    /\ script = OneLinerGenerator
    /\ main_pc = "work"
    /\ main_pc' = "exit"
    /\ \E meta \in GeneratorMetadata, page \in ValueProps, reply \in OneLinerReplies :
          \E r \in { OneLinerRun(meta, page, reply) } :
             /\ one_liner' = [generator_metadata |-> meta,
                              value_prop |-> IF r.extract = 0 THEN NoneStr ELSE page.content,
                              returned |-> r.returned]
             /\ script_calls' = [script_calls EXCEPT !.extract = @ + r.extract,
                                                      !.llm = @ + r.llm]
             /\ outcome' = IF r.raised THEN "application_error" ELSE "completed"
    /\ UNCHANGED <<genVars, tasks, calls, first_done, heap, faults, all_results,
                   all_restaurants_flat, rankVars, presentVars, requests, exit_code,
                   script, env>>

\* the status of a process that ends on an uncaught KeyboardInterrupt: the
\* interpreter ends it with SIGINT, which a shell reports as 128 + 2
SigintStatus == 130

\* date-planner lines 688-692: `except KeyboardInterrupt: exit(0)` around
\* asyncio.run(main()); gemini-cua (131-141) and one-liner-generator
\* (216-222) catch Exception only, and nothing stands around the module level
HandlesInterrupt == script = DatePlanner /\ main_pc # "import"

\* the user interrupts the process (Ctrl-C) while it runs
Interrupt ==
    /\ exit_code = Running
    /\ main_pc # "exit"
    /\ main_pc' = "exit"
    /\ outcome' = "interrupted"
    /\ exit_code' = IF HandlesInterrupt THEN 0 ELSE SigintStatus
    /\ UNCHANGED <<genVars, tasks, calls, first_done, heap, faults, all_results,
                   all_restaurants_flat, rankVars, presentVars, requests, procVars>>

\* the date-planner with every credential set, at the first statement of
\* main that calls something external
Init == Start(DatePlanner, Credentials, "generate")

Next ==
    \/ GenerateQueries(PipelineResponses)
    \/ \E n \in 1..Len(tasks) : TaskStep(n)
    \/ Gather
    \/ Score(PipelineReplies(Len(all_restaurants_flat)))
    \/ Filter
    \/ FindNearbyActivities
    \/ ProcessExit

Spec == Init /\ [][Next]_vars

\* the search phase with two generated queries: the event loop runs every
\* coroutine that can take a step, and every external call returns or raises
NextSearch ==
    \/ GenerateQueries({ GeneratorSays(<<"a", "\n", "b">>) })
    \/ \E n \in 1..Len(tasks) : TaskStep(n)
    \/ Gather

SpecFair ==
    Init /\ [][NextSearch]_vars /\ \A n \in 1..MaxQueries : WF_vars(TaskStep(n))

\* every script from its first statement, under every environment that
\* holds some of its credentials; the date-planner gets one query
InitScripts ==
    \E s \in Scripts : \E e \in SUBSET Required(s) : Start(s, e, "import")

NextScripts ==
    \/ CreateClient
    \/ ValidateEnvVars
    \/ ScriptSession
    \/ AgentExecute
    \/ GenerateOneLiner
    \/ Interrupt
    \/ GenerateQueries({ GeneratorSays(<<"a">>) })
    \/ \E n \in 1..Len(tasks) : TaskStep(n)
    \/ Gather
    \/ Score(PipelineReplies(Len(all_restaurants_flat)))
    \/ Filter
    \/ FindNearbyActivities
    \/ ProcessExit

SpecScripts == InitScripts /\ [][NextScripts]_vars

(***************************************************************************)
(* The query generator on its own, over more Preference Sets.              *)
(***************************************************************************)
InitGenerator ==
    /\ user_input \in GeneratorPreferences
    /\ main_pc = "generate"
    /\ gen_response = NoResponse
    /\ search_queries = <<>>
    /\ tasks = <<>>
    /\ calls = <<>>
    /\ first_done = 0
    /\ heap = <<>>
    /\ faults = 0
    /\ all_results = <<>>
    /\ all_restaurants_flat = <<>>
    /\ response = NoReply
    /\ scored_restaurants = <<>>
    /\ filtered_restaurants = <<>>
    /\ top3_restaurants = <<>>
    /\ activities = NoActivities
    /\ activity_call = NoActivityCall
    /\ outcome = "running"
    /\ shown = <<>>
    /\ primary_restaurant = NoRestaurant
    /\ backup_restaurants = <<>>
    /\ requests = NoRequests
    /\ exit_code = Running
    /\ script = DatePlanner
    /\ env = Environment(Credentials)
    /\ script_calls = NoScriptCalls
    /\ one_liner = NoOneLiner

NextGenerator == GenerateQueries(GeneratorResponses)

SpecGenerator == InitGenerator /\ [][NextGenerator]_vars

(***************************************************************************)
(* The scorer and the filter on their own: main stands at the call of      *)
(* score_restaurants (line 561) in a run whose generator failed and whose  *)
(* three searches verified `n` records between them, two per search.       *)
(***************************************************************************)
RecordsOf(n, j) == Min(2, IF n > 2 * (j - 1) THEN n - 2 * (j - 1) ELSE 0)

SearchedTask(u, n, j) ==
    LET t == NewTask(FallbackQueries(u)[j], j - 1)
        ids == [i \in 1..RecordsOf(n, j) |-> RestaurantId(t, i)]
        done == [t EXCEPT !.bound = TRUE, !.session = "closed", !.closes = 1,
                          !.restaurants_list = RecordsOf(n, j),
                          !.i = RecordsOf(n, j), !.verified_restaurants = ids]
    IN  [done EXCEPT !.pc = "done", !.result = SuccessResult(done)]

\* the calls of a search that went through with k records
SearchedCalls(k) ==
    [NoCalls EXCEPT !.acquire = 1, !.goto = 1, !.extract = 1, !.detail_goto = k,
                    !.detail_extract = k, !.close = 1]

AtScoring(u, n) ==
    LET ts == [j \in 1..MaxQueries |-> SearchedTask(u, n, j)]
        results == [j \in 1..MaxQueries |-> ts[j].result]
    IN  /\ user_input = u
        /\ main_pc = "score"
        /\ gen_response = GeneratorRaises
        /\ search_queries = FallbackQueries(u)
        /\ tasks = ts
        /\ calls = [j \in 1..MaxQueries |-> SearchedCalls(RecordsOf(n, j))]
        /\ first_done = 1
        /\ heap = [id \in { RestaurantId(ts[j], i) :
                               j \in 1..MaxQueries, i \in 1..2 }
                             \cap { Flatten(results)[k] : k \in 1..n }
                     |-> NewRestaurant(TRUE)]
        /\ faults = 0
        /\ all_results = results
        /\ all_restaurants_flat = Flatten(results)
        /\ response = NoReply
        /\ scored_restaurants = <<>>
        /\ filtered_restaurants = <<>>
        /\ top3_restaurants = <<>>
        /\ activities = NoActivities
        /\ activity_call = NoActivityCall
        /\ outcome = "running"
        /\ shown = <<>>
        /\ primary_restaurant = NoRestaurant
        /\ backup_restaurants = <<>>
        /\ requests = [NoRequests EXCEPT !.generator = 1]
        /\ exit_code = Running
        /\ script = DatePlanner
        /\ env = Environment(Credentials)
        /\ script_calls = NoScriptCalls
        /\ one_liner = NoOneLiner

\* the score values of the scorer specification: an int in the range, one
\* above it, a negative one, a float, a str, null, and no "score" key
ScoreValues ==
    { IntScore(5), IntScore(11), IntScore(-1), FloatScore(75), StrScore, NoneScore,
      MissingScore }

\* the elements of a reply of the scorer specification; restaurantIndex 0
\* stands for an ordinal that is absent or matches no candidate
ScorerItems(n) ==
    { NonObject }
      \cup { Entry(i, sc, ReasonGood) : i \in 0..n, sc \in ScoreValues }
      \cup { Entry(i, IntScore(5), MissingStr) : i \in 0..n }

\* the replies of the scorer specification, for n candidates
ScorerReplies(n) ==
    { RaisingReply, Reply("invalid", <<>>), Reply("scalar", <<>>), Reply("none", <<>>),
      Reply("object", <<>>), Reply("object", <<NonObject>>) }
      \cup { Reply("array", items) : items \in SeqsUpTo(ScorerItems(n), MaxReplyLen) }

InitScorer ==
    \E n \in 1..MaxCand :
       AtScoring(Preference(Thai, SanFrancisco, BudgetTwo), n)

NextScorer ==
    \/ Score(ScorerReplies(Len(all_restaurants_flat)))
    \/ Filter
    \/ FindNearbyActivities

SpecScorer == InitScorer /\ [][NextScorer]_vars

\* lines 559-566 alone: main calls score_restaurants with the aggregated
\* candidates, up to its return
NextMapping == Score(ScorerReplies(Len(all_restaurants_flat)))

SpecMapping == InitScorer /\ [][NextMapping]_vars

\* what one entry of a reply of the filter specification says
Verdicts ==
    { <<8, ReasonGood>>, <<5, ReasonGood>>, <<4, ReasonGood>>, <<8, ReasonNotThai>>,
      <<8, ReasonWrong>>, <<8, ReasonNotItalia>>, <<8, ReasonDoesnt>> }

Orderings(seq) ==
    { [i \in 1..Len(seq) |-> seq[f[i]]] :
        f \in { g \in [1..Len(seq) -> 1..Len(seq)] :
                  \A a, b \in 1..Len(seq) : a # b => g[a] # g[b] } }

ScenarioFive == <<9, 6, 4, 8, 2>>
ScenarioSix == <<9, 7, 8, 3, 6, 2>>

\* the replies of the filter specification: one entry per candidate, in order
FilterReplies(n) ==
    (IF n <= MaxFilterCand
     THEN { Reply("array", [i \in 1..n |-> Entry(i, IntScore(v[i][1]), v[i][2])]) :
              v \in [1..n -> Verdicts] }
     ELSE {})
      \cup (IF n = Len(ScenarioFive)
            THEN { Complete(p, ReasonGood) : p \in Orderings(ScenarioFive) }
            ELSE {})
      \cup (IF n = Len(ScenarioSix) THEN { Complete(ScenarioSix, ReasonGood) } ELSE {})
      \cup (IF n > MaxFilterCand
            THEN { Complete([i \in 1..n |-> 3], ReasonGood) } ELSE {})

InitFilter ==
    \E u \in PreferenceSets :
       \E n \in 1..MaxFilterCand \cup {Len(ScenarioFive), Len(ScenarioSix)} :
          AtScoring(u, n)

NextFilter ==
    \/ Score(FilterReplies(Len(all_restaurants_flat)))
    \/ Filter
    \/ FindNearbyActivities
    \/ ProcessExit

SpecFilter == InitFilter /\ [][NextFilter]_vars

(***************************************************************************)
(* The claims.                                                             *)
(***************************************************************************)
AfterGather == main_pc \notin {"generate", "gather"}
\* score_restaurants was called and returned to main
ScorerReturned == response # NoReply /\ ~response.raises
\* main got past the filter
FilterDone == ScorerReturned /\ main_pc \in {"activities", "exit"}
                /\ outcome # "scoring_error"

RECURSIVE SurvivingCandidates(_)
SurvivingCandidates(ts) ==
    IF ts = <<>> THEN 0
    ELSE (IF Head(ts).failing THEN 0 ELSE Len(Head(ts).verified_restaurants))
           + SurvivingCandidates(Tail(ts))

\* C1: once the joint await has returned, the aggregated sequence is as long
\* as the candidate lists built by the tasks that did not fail, taken
\* together, whatever the interleaving, and no failing task has aborted the run.
C1_SearchIsolation ==
    AfterGather =>
       /\ outcome # "application_error"
       /\ Len(all_results) = Len(search_queries)
       /\ Len(all_restaurants_flat) = SurvivingCandidates(tasks)

\* three searches of which the second failed and the others found a candidate
C1_Witness ==
    /\ main_pc = "score"
    /\ Len(tasks) = 3
    /\ tasks[2].failing
    /\ ~tasks[1].failing /\ Len(tasks[1].verified_restaurants) = 1
    /\ ~tasks[3].failing /\ Len(tasks[3].verified_restaurants) = 1
    /\ Len(all_restaurants_flat) = 2

\* C2 as stated: a finished task in which any exception was raised (also one
\* raised by an extraction or by the enrichment of a record) has returned an
\* Outcome for its query with no candidates.
C2_AnyExceptionEmptiesOutcome ==
    \A n \in 1..Len(tasks) :
       (tasks[n].pc = "done" /\ tasks[n].raised) =>
          /\ tasks[n].result.status = "returned"
          /\ tasks[n].result.query = search_queries[n]
          /\ tasks[n].result.restaurants = <<>>

\* C2 as amended: a finished task has returned an Outcome for its query (it
\* never raises into the joint await); the Outcome is empty when an exception
\* left the session block or came from acquiring or releasing the session;
\* after exceptions caught inside the block (extraction, enrichment) the task
\* goes on and returns the candidates it built, one per record up to three.
C2_EscapedExceptionEmptiesOutcome ==
    \A n \in 1..Len(tasks) :
       tasks[n].pc = "done" =>
          /\ tasks[n].result.status = "returned"
          /\ tasks[n].result.query = search_queries[n]
          /\ tasks[n].failing => tasks[n].result.restaurants = <<>>
          /\ ~tasks[n].failing =>
                /\ tasks[n].result.restaurants = tasks[n].verified_restaurants
                /\ Len(tasks[n].result.restaurants)
                     = Min(3, tasks[n].restaurants_list)

\* a task that had built a candidate when the release of its session failed
C2_Witness ==
    \E n \in 1..Len(tasks) :
       /\ tasks[n].pc = "done"
       /\ tasks[n].failing
       /\ Len(tasks[n].verified_restaurants) > 0
       /\ tasks[n].result.restaurants = <<>>

\* C3: when the scoring request raised, main still goes on with every
\* candidate scored 5 with the fallback rationale (no scoring error reaches
\* main).
C3_RequestFailureRecovered ==
    (response.raises /\ main_pc # "score") =>
       /\ outcome # "scoring_error"
       /\ scored_restaurants = all_restaurants_flat
       /\ \A k \in 1..Len(all_restaurants_flat) :
             /\ heap[all_restaurants_flat[k]].ai_score = IntScore(5)
             /\ heap[all_restaurants_flat[k]].ai_reason = ScoringFailed

\* the reply is no JSON, no JSON array, or an array with an element that is
\* no object
MalformedReply(reply) ==
    \/ reply.json \in {"invalid", "scalar", "object"}
    \/ reply.json = "array" /\ \E k \in 1..Len(reply.items) : ~reply.items[k].obj

\* C4: after a malformed scoring reply every candidate has score 5 and the
\* fallback rationale, and the scorer's result is in aggregated order.
C4_MalformedReplyScoresFive ==
    (ScorerReturned /\ MalformedReply(response)) =>
       /\ scored_restaurants = all_restaurants_flat
       /\ \A k \in 1..Len(all_restaurants_flat) :
             /\ heap[all_restaurants_flat[k]].ai_score = IntScore(5)
             /\ heap[all_restaurants_flat[k]].ai_reason = ScoringFailed

Position(seq, x) == CHOOSE k \in 1..Len(seq) : seq[k] = x
SortKey(id) == OrZero(heap[id].ai_score)

\* C5: the scorer's result holds the candidates of its input, each once; it is
\* in descending order of score (None counting as 0) and candidates of equal
\* score are in their aggregated order.
C5_ScorerSortsStably ==
    ScorerReturned =>
       /\ Len(scored_restaurants) = Len(all_restaurants_flat)
       /\ \A k \in 1..Len(all_restaurants_flat) :
             \E m \in 1..Len(scored_restaurants) :
                scored_restaurants[m] = all_restaurants_flat[k]
       /\ \A a, b \in 1..Len(scored_restaurants) :
             a < b =>
               /\ Comparable(SortKey(scored_restaurants[a]), SortKey(scored_restaurants[b]))
               /\ Num(SortKey(scored_restaurants[a])) >= Num(SortKey(scored_restaurants[b]))
               /\ Num(SortKey(scored_restaurants[a])) = Num(SortKey(scored_restaurants[b]))
                     => Position(all_restaurants_flat, scored_restaurants[a])
                          < Position(all_restaurants_flat, scored_restaurants[b])

\* the second of three candidates was scored and moved in front of the other
\* two, which tie and keep their order
C5_Witness ==
    /\ ScorerReturned
    /\ Len(all_restaurants_flat) = 3
    /\ scored_restaurants = <<all_restaurants_flat[2], all_restaurants_flat[1],
                              all_restaurants_flat[3]>>
    /\ SortKey(all_restaurants_flat[1]) = SortKey(all_restaurants_flat[3])

\* C6: after the scorer has returned every candidate's score is an int from
\* 0 to 10.
C6_ScoreInRange ==
    ScorerReturned =>
       \A k \in 1..Len(all_restaurants_flat) :
          /\ heap[all_restaurants_flat[k]].ai_score.t = "int"
          /\ heap[all_restaurants_flat[k]].ai_score.v \in 0..10

\* C7: the searcher gets one to three non-empty queries, and for an empty,
\* blank or missing reply they are the template queries.
C7_OneToThreeQueries ==
    main_pc # "generate" =>
       /\ Len(search_queries) \in 1..3
       /\ \A k \in 1..Len(search_queries) : search_queries[k] # <<>>
       /\ (~gen_response.raises /\ Strip(OrEmpty(gen_response.content)) = <<>>)
             => search_queries = FallbackQueries(user_input)

\* C8: after generate_search_queries raised the searcher runs three queries,
\* each with the cuisine and the location in it, the same for the same
\* Preference Set.
C8_FallbackQueries ==
    gen_response.raises =>
       /\ main_pc # "generate"
       /\ Len(search_queries) = 3
       /\ Len(tasks) = 3
       /\ \A k \in 1..3 :
             /\ tasks[k].query = search_queries[k]
             /\ Contains(search_queries[k], user_input.cuisine_type)
             /\ Contains(search_queries[k], user_input.location)
       /\ search_queries =
             << user_input.cuisine_type \o StrRestaurantsIn \o user_input.location,
                user_input.cuisine_type \o StrSpace \o user_input.location
                   \o StrSpace \o user_input.budget,
                StrBest \o user_input.cuisine_type \o StrRestaurants
                   \o user_input.location >>

\* the fallback for Fine Dining in Austin
C8_Witness ==
    /\ gen_response.raises
    /\ main_pc = "gather"
    /\ user_input.cuisine_type = FineDining
    /\ user_input.location = Austin
    /\ Len(tasks) = 3

NotThaiLower == <<"n","o","t"," ","t","h","a","i">>
NotThaiCuisineLower == <<"n","o","t"," ","t","h","a","i"," ","c","u","i","s","i","n","e">>
NotItalianLower == <<"n","o","t"," ","i","t","a","l","i","a","n">>
NotItaliaCuisineLower == <<"n","o","t"," ","i","t","a","l","i","a"," ","c","u","i","s","i","n","e">>

\* the category-mismatch phrases for the two cuisines of the filter
\* specification, written out
MismatchPhrases ==
    {StrDoesntMatch, StrWrongCuisine}
      \cup (IF user_input.cuisine_type = Thai
            THEN {NotThaiLower, NotThaiCuisineLower}
            ELSE {NotItalianLower, NotItaliaCuisineLower})

Survives(id) ==
    /\ IsNum(SortKey(id))
    /\ Num(SortKey(id)) >= 10 * 5
    /\ \A p \in MismatchPhrases : ~Contains(Lower(OrEmpty(heap[id].ai_reason)), p)

\* C9: the filter keeps exactly the scored candidates with a score of at
\* least 5 and no mismatch phrase in the lower-cased rationale, in the
\* scorer's order, and the Ranked Result Set is the first three of them.
C9_FilterKeepsSurvivors ==
    FilterDone =>
       /\ filtered_restaurants = SelectSeq(scored_restaurants, Survives)
       /\ top3_restaurants
            = SubSeq(filtered_restaurants, 1, Min(3, Len(filtered_restaurants)))

\* four survivors, of which the first three are ranked
C9_Witness ==
    /\ FilterDone
    /\ Len(filtered_restaurants) = 4
    /\ Len(top3_restaurants) = 3

\* a candidate's score, in tenths
ScoreOf(id) == Num(SortKey(id))

\* the reply scores five candidates 9, 6, 4, 8 and 2 in some order
IsScenarioFive(reply) ==
    /\ reply.json = "array"
    /\ Len(reply.items) = 5
    /\ \A k \in 1..5 : /\ reply.items[k].restaurantIndex = k
                        /\ reply.items[k].score.t = "int"
                        /\ reply.items[k].reason = ReasonGood
    /\ { reply.items[k].score.v : k \in 1..5 } = {9, 6, 4, 8, 2}

\* C10: the Ranked Result Set is in descending order of score and no
\* survivor left out of it has a higher score than one in it; scores
\* [9,7,8,3,6,2] for six candidates rank candidates 1, 3, 2, and scores
\* [9,6,4,8,2] in any order rank the candidates scored 9, 8 and 6.
C10_RankedByScore ==
    FilterDone =>
       /\ \A a, b \in 1..Len(top3_restaurants) :
             a < b => ScoreOf(top3_restaurants[a]) >= ScoreOf(top3_restaurants[b])
       /\ \A k \in 1..Len(all_restaurants_flat) :
             (/\ Survives(all_restaurants_flat[k])
              /\ \A a \in 1..Len(top3_restaurants) :
                    top3_restaurants[a] # all_restaurants_flat[k])
               => /\ Len(top3_restaurants) = 3
                  /\ \A a \in 1..3 :
                        ScoreOf(top3_restaurants[a]) >= ScoreOf(all_restaurants_flat[k])
       /\ response = Complete(ScenarioSix, ReasonGood) =>
             top3_restaurants = <<all_restaurants_flat[1], all_restaurants_flat[3],
                                  all_restaurants_flat[2]>>
       /\ IsScenarioFive(response) =>
             [a \in 1..Len(top3_restaurants) |-> ScoreOf(top3_restaurants[a])]
               = <<90, 80, 60>>

\* the six-candidate scenario, ranked
C10_Witness ==
    /\ FilterDone
    /\ response = Complete(ScenarioSix, ReasonGood)
    /\ top3_restaurants = <<all_restaurants_flat[1], all_restaurants_flat[3],
                            all_restaurants_flat[2]>>

\* C11: when the filter keeps nothing the run ends with the "no good match"
\* report: the first three scored candidates are listed, no primary is chosen,
\* no nearby-activities request is sent, and the process ends with status 0.
C11_NoGoodMatch ==
    /\ (FilterDone /\ filtered_restaurants = <<>>) => outcome = "no_good_match"
    /\ outcome = "no_good_match" =>
          /\ main_pc = "exit"
          /\ filtered_restaurants = <<>>
          /\ shown = SubSeq(scored_restaurants, 1, Min(3, Len(scored_restaurants)))
          /\ primary_restaurant = NoRestaurant
          /\ backup_restaurants = <<>>
          /\ requests.activities = 0
          /\ activities = NoActivities
          /\ exit_code \in {Running, 0}

\* six scored candidates, none kept: three listed and the process ended
C11_Witness ==
    /\ outcome = "no_good_match"
    /\ Len(scored_restaurants) = 6
    /\ Len(shown) = 3
    /\ exit_code = 0

\* the number of candidates of the Outcomes in front of the n-th
RECURSIVE Offset(_)
Offset(n) == IF n <= 1 THEN 0 ELSE Offset(n - 1) + Len(all_results[n - 1].restaurants)

\* C12: the aggregated sequence is the Outcomes' candidate lists one after
\* the other in launch order, each in its own order and with nothing dropped,
\* in whatever order the searches returned; aggregating the same Outcomes
\* again gives the same sequence.
C12_AggregationOrder ==
    (AfterGather /\ outcome # "application_error") =>
       /\ Len(all_results) = Len(search_queries)
       /\ \A n \in 1..Len(all_results) :
             /\ all_results[n] = tasks[n].result
             /\ all_results[n].query = search_queries[n]
             /\ all_results[n].session_index = n
             /\ \A i \in 1..Len(all_results[n].restaurants) :
                   all_restaurants_flat[Offset(n) + i] = all_results[n].restaurants[i]
       /\ Len(all_restaurants_flat) = Offset(Len(all_results) + 1)
       /\ Flatten(all_results) = all_restaurants_flat

\* three searches of which the one launched last returned first, each with
\* a candidate of the same name, and all three are aggregated in launch order
C12_Witness ==
    /\ main_pc = "score"
    /\ first_done = 3
    /\ Len(all_results) = 3
    /\ Len(all_restaurants_flat) = 3
    /\ \A k \in 1..3 : Len(all_results[k].restaurants) = 1
    /\ \A k \in 1..3 : /\ all_restaurants_flat[k] = all_results[k].restaurants[1]
                        /\ Name(all_restaurants_flat[k]) = Name(all_restaurants_flat[1])

\* every call but the extraction of the result records is issued at most
\* once for its purpose: one acquisition and one search navigation per
\* search, one navigation and one extraction per record, one request per
\* stage that asks the model
OtherCallsOnce ==
    /\ \A n \in 1..Len(tasks) :
          /\ calls[n].acquire <= 1
          /\ calls[n].goto <= 1
          /\ calls[n].detail_goto
               = tasks[n].i + (IF tasks[n].pc = "detail" THEN 1 ELSE 0)
          /\ calls[n].detail_goto <= Min(3, tasks[n].restaurants_list)
          /\ calls[n].detail_extract <= tasks[n].i
    /\ requests.generator <= 1
    /\ requests.scorer <= 1
    /\ requests.activities <= 1

Unscored == \A id \in DOMAIN heap : heap[id].ai_score = NoneScore

\* C14: while a search is still running nothing is aggregated and nothing is
\* scored; once main has gone past the joint await every search has returned
\* and there is exactly one Outcome per query.
C14_FullJoin ==
    /\ (\E n \in 1..Len(tasks) : tasks[n].pc # "done") =>
          /\ main_pc = "gather"
          /\ all_results = <<>>
          /\ all_restaurants_flat = <<>>
          /\ requests.scorer = 0
          /\ response = NoReply
          /\ Unscored
    /\ (AfterGather /\ outcome # "application_error") =>
          /\ Len(all_results) = Len(search_queries)
          /\ \A n \in 1..Len(tasks) :
                /\ tasks[n].pc = "done"
                /\ tasks[n].result.status = "returned"
                /\ all_results[n].query = search_queries[n]

\* the second of three searches returned first, and what was aggregated
\* afterwards holds the candidates of all three
C14_Witness ==
    /\ main_pc = "score"
    /\ first_done = 2
    /\ Len(all_results) = 3
    /\ \A n \in 1..3 : Len(all_results[n].restaurants) = 1
    /\ Len(all_restaurants_flat) = 3
    /\ requests.scorer = 0

Launched(n) == n <= Len(tasks)
Returned(n) ==
    /\ n <= Len(tasks)
    /\ tasks[n].pc = "done"
    /\ tasks[n].result.status = "returned"
    /\ tasks[n].result.query = tasks[n].query

\* C15: every search that was launched returns an Outcome for its query in
\* the end, whatever its siblings do.
C15_EverySearchReturns ==
    \A n \in 1..MaxQueries : Launched(n) ~> Returned(n)

\* the first search failed and returned first; the second went on and
\* returned a candidate
C15_Witness ==
    /\ Len(tasks) = 2
    /\ first_done = 1
    /\ tasks[1].failing
    /\ Returned(2)
    /\ ~tasks[2].failing
    /\ Len(tasks[2].result.restaurants) = 1

\* what the searches own: each has acquired at most one session, and the
\* Restaurants in its list are its own
OwnState ==
    \A n \in 1..Len(tasks) :
       /\ calls[n].acquire = (IF tasks[n].pc = "init" THEN 0 ELSE 1)
       /\ tasks[n].session # "none" => tasks[n].bound
       /\ \A k \in 1..Len(tasks[n].verified_restaurants) :
             /\ tasks[n].verified_restaurants[k][1] = n
             /\ tasks[n].verified_restaurants[k] \in DOMAIN heap
       /\ \A m \in 1..Len(tasks) :
             m # n => \A k \in 1..Len(tasks[n].verified_restaurants) :
                        \A j \in 1..Len(tasks[m].verified_restaurants) :
                           tasks[n].verified_restaurants[k]
                             # tasks[m].verified_restaurants[j]

\* a step of the search phase is the step of one search: it leaves the other
\* searches, every Restaurant built so far, the Preference Set and the queries
\* as they are, and a Restaurant it adds goes to its own list
OwnStep ==
    (main_pc = "gather" /\ main_pc' = "gather") =>
       /\ user_input' = user_input
       /\ search_queries' = search_queries
       /\ Len(tasks') = Len(tasks)
       /\ \A id \in DOMAIN heap : id \in DOMAIN heap' /\ heap'[id] = heap[id]
       /\ \E n \in 1..Len(tasks) :
             /\ \A m \in 1..Len(tasks) :
                   m # n => tasks'[m] = tasks[m] /\ calls'[m] = calls[m]
             /\ tasks'[n].query = tasks[n].query
             /\ tasks'[n].session_index = tasks[n].session_index
             /\ \A id \in DOMAIN heap' :
                   id \notin DOMAIN heap =>
                      /\ id[1] = n
                      /\ tasks'[n].verified_restaurants
                           = Append(tasks[n].verified_restaurants, id)

\* C16: during the search phase every search has one session of its own at
\* most and writes only to its own candidate list and Outcome; the Preference
\* Set and the queries are only read.
C16_NoSharedWrites == []OwnState /\ [][OwnStep]_vars

\* two searches with their sessions open at the same time, each with a
\* candidate of its own
C16_Witness ==
    /\ main_pc = "gather"
    /\ Len(tasks) = 3
    /\ \A n \in 1..2 : /\ tasks[n].session = "open"
                        /\ tasks[n].verified_restaurants = <<<<n, 1>>>>

\* C17: in a run the nearby-activities request is sent once at most, for the
\* first Restaurant of the top three and only after the primary and the backups
\* were chosen; when the request fails the run goes on to its normal end with
\* the three fixed activities.
C17_ActivitiesOnce ==
    /\ requests.activities <= 1
    /\ requests.activities = 0 => activities = NoActivities /\ activity_call = NoActivityCall
    /\ requests.activities = 1 =>
          /\ top3_restaurants # <<>>
          /\ activity_call.restaurant = top3_restaurants[1]
          /\ primary_restaurant = top3_restaurants[1]
          /\ backup_restaurants = SubSeq(top3_restaurants, 2, Len(top3_restaurants))
          /\ outcome = "planned"
          /\ (activity_call.raises \/ activity_call.content = NoneStr) =>
                /\ Len(activities) = 3
                /\ activities = ActivityFallback

\* the request for the primary of three chosen Restaurants raised, and the run
\* ended as planned with the three fixed activities
C17_Witness ==
    /\ requests.activities = 1
    /\ activity_call.raises
    /\ activity_call.restaurant = primary_restaurant
    /\ Len(backup_restaurants) = 2
    /\ activities = ActivityFallback
    /\ outcome = "planned"

\* C18: a process of any of the scripts ends with status 0 when the run
\* succeeded or the user interrupted it, with status 1 when a failure reached
\* the top level, and with no other status.
C18_ExitCodes ==
    exit_code # Running =>
       /\ exit_code \in {0, 1}
       /\ outcome = "interrupted" => exit_code = 0
       /\ outcome \in {"application_error", "import_error", "config_error"} => exit_code = 1
       /\ outcome \in {"planned", "completed"} => exit_code = 0

\* a browser session was requested / a model request was sent
SessionRequested ==
    \/ script_calls.session > 0
    \/ \E n \in 1..Len(calls) : calls[n].acquire > 0
LlmRequestSent ==
    \/ script_calls.llm > 0
    \/ requests.generator + requests.scorer + requests.activities > 0

\* C19: when a credential the script reads is not set, the process ends with
\* a non-zero status before any browser session is requested and before any
\* model request is sent (a run the user interrupts aside).
C19_MissingCredentialFatal ==
    (~AllSet(Required(script)) /\ outcome # "interrupted") =>
       /\ ~SessionRequested
       /\ ~LlmRequestSent
       /\ main_pc \in {"import", "exit"}
       /\ exit_code \in {Running, 1}

\* the place of main in the pipeline: the generator, the searcher and the
\* aggregator (the joint await, then the flattening), the scorer, the filter,
\* the presenter with the activities, the end
Stage(pc) ==
    CASE pc = "import" -> 0
      [] pc = "generate" -> 1
      [] pc = "gather" -> 2
      [] pc = "score" -> 3
      [] pc = "filter" -> 4
      [] pc = "activities" -> 5
      [] OTHER -> 6

StageStep ==
    /\ Stage(main_pc') >= Stage(main_pc)
    /\ main_pc' = main_pc => main_pc \in {"gather", "exit"}
    /\ <<gen_response, search_queries>>' # <<gen_response, search_queries>>
          => main_pc = "generate"
    /\ tasks' # tasks => \/ main_pc = "generate"
                         \/ main_pc = "gather" /\ main_pc' = "gather"
    /\ <<all_results, all_restaurants_flat>>' # <<all_results, all_restaurants_flat>>
          => main_pc = "gather" /\ main_pc' # "gather"
    /\ <<response, scored_restaurants>>' # <<response, scored_restaurants>>
          => main_pc = "score"
    /\ <<filtered_restaurants, top3_restaurants, presentVars>>'
          # <<filtered_restaurants, top3_restaurants, presentVars>> => main_pc = "filter"
    /\ activities' # activities => main_pc = "activities"
    /\ requests'.generator <= 1
    /\ requests'.scorer <= 1
    /\ requests'.activities <= 1

\* C20: in a run of the date-planner main goes through the generator, the
\* searches, the aggregation, the scorer, the filter and the presentation in
\* this order: every step of main moves it to a later stage, each stage
\* writes its variables only while main is in it, and each request is sent
\* once at most.
C20_StagesInOrder == [][StageStep]_vars

\* a run that went through every stage: three searches, one request of each
\* kind, and the process ended with the plan shown
C20_Witness ==
    /\ main_pc = "exit"
    /\ exit_code = 0
    /\ outcome = "planned"
    /\ Len(tasks) = 3
    /\ requests = [activities |-> 1, generator |-> 1, scorer |-> 1]

\* C21: a search that has returned and had acquired a session has had its
\* close issued, on the return path and on every failure path, and the session
\* is closed unless every close call raised.
C21_SessionReleased ==
    \A n \in 1..Len(tasks) :
       (tasks[n].pc = "done" /\ tasks[n].bound) =>
          /\ tasks[n].closes >= 1
          /\ calls[n].close = tasks[n].closes
          /\ tasks[n].session = "closed" \/ tasks[n].close_errors = tasks[n].closes
          /\ ~tasks[n].failing => tasks[n].session = "closed"

\* three searches have returned with their sessions closed: one on the
\* return path with a candidate, one after a failed navigation to the search
\* page, and one whose enrichment failed
C21_Witness ==
    /\ Len(tasks) = 3
    /\ \A n \in 1..3 : tasks[n].pc = "done" /\ tasks[n].session = "closed"
    /\ \E n \in 1..3 : ~tasks[n].failing /\ tasks[n].verified_restaurants # <<>>
                        /\ ~tasks[n].raised
    /\ \E n \in 1..3 : tasks[n].failing /\ calls[n].goto = 1 /\ calls[n].extract = 0
    /\ \E n \in 1..3 : /\ ~tasks[n].failing /\ tasks[n].raised
                        /\ tasks[n].verified_restaurants # <<>>
                        /\ ~heap[tasks[n].verified_restaurants[1]].verified

\* C22: a record whose enrichment failed stays in the list as an unverified
\* candidate with the placeholder rating and price; the loop goes on to the
\* other records, so that the candidates are the first records in extraction
\* order, whichever enrichments failed, and the task returns them.
C22_EnrichmentFailureKeepsRecord ==
    \A n \in 1..Len(tasks) :
       LET t == tasks[n]
           vr == t.verified_restaurants
       IN  /\ \A k \in 1..Len(vr) :
                 /\ vr[k] = RestaurantId(t, k)
                 /\ ~heap[vr[k]].verified =>
                       /\ heap[vr[k]].rating = RatingNotVerified
                       /\ heap[vr[k]].price_range = PriceNotVerified
           /\ (t.pc = "done" /\ ~t.failing) =>
                 /\ Len(vr) = Min(MaxVerified, t.restaurants_list)
                 /\ t.result.status = "returned"
                 /\ t.result.restaurants = vr

\* a search that ran alone returned three candidates: the first unverified
\* after its enrichment failed, the second and the third verified
C22_Witness ==
    /\ Len(tasks) = 1
    /\ tasks[1].pc = "done"
    /\ Len(tasks[1].result.restaurants) = 3
    /\ ~heap[tasks[1].result.restaurants[1]].verified
    /\ heap[tasks[1].result.restaurants[2]].verified
    /\ heap[tasks[1].result.restaurants[3]].verified

\* the fields of a Restaurant that the search task sets
Described(r) == <<r.verified, r.rating, r.price_range>>
\* the fields the scorer sets
Scored(r) == <<r.ai_score, r.ai_reason>>

CandidateStep ==
    \A id \in DOMAIN heap :
       /\ id \in DOMAIN heap'
       /\ Described(heap'[id]) = Described(heap[id])
       /\ Scored(heap'[id]) # Scored(heap[id]) =>
             /\ main_pc = "score"
             /\ requests'.scorer = requests.scorer + 1

\* C23: a Restaurant a search has created stays where it is with the
\* verification flag, rating and price it was created with, through the
\* aggregation, the scoring, the filter and the presentation; its score and
\* reason change only in the step of score_restaurants.
C23_CandidateFrame == [][CandidateStep]_vars

\* an unverified and a verified candidate of one search were scored, and the
\* plan was shown: they are as the search created them
C23_Witness ==
    /\ outcome = "planned"
    /\ Len(tasks) = 1
    /\ Len(all_restaurants_flat) = 2
    /\ ~heap[<<1, 1>>].verified /\ heap[<<1, 1>>].rating = RatingNotVerified
    /\ heap[<<1, 2>>].verified /\ heap[<<1, 2>>].rating = RatingNotAvailable
    /\ \A k \in 1..2 : heap[<<1, k>>].writes = 1

\* the candidates that were handed to score_restaurants, once it is over
ReachedScorer ==
    IF main_pc \in {"filter", "activities", "exit"} /\ requests.scorer = 1
    THEN { all_restaurants_flat[k] : k \in 1..Len(all_restaurants_flat) }
    ELSE {}

\* C24: the score and the reason of a Restaurant are unset until they are
\* written, they are written once for every candidate that was handed to the
\* scorer, and never a second time.
C24_ScoredExactlyOnce ==
    \A id \in DOMAIN heap :
       /\ heap[id].writes <= 1
       /\ heap[id].writes = 0 =>
             heap[id].ai_score = NoneScore /\ heap[id].ai_reason = NoneStr
       /\ id \in ReachedScorer => heap[id].writes = 1

\* the places of the reply's entries with ordinal p
Matches(items, p) == { k \in 1..Len(items) : items[k].obj /\ items[k].restaurantIndex = p }
FirstMatch(items, p) ==
    LET m == Matches(items, p) IN CHOOSE k \in m : \A j \in m : k <= j
\* the first entry of the reply with ordinal p, or none
FirstEntry(items, p) ==
    IF Matches(items, p) = {} THEN NonObject ELSE items[FirstMatch(items, p)]
\* the search for ordinal p meets an element that is no object before an entry
\* with the ordinal
MeetsNonObject(items, p) ==
    \E k \in 1..Len(items) :
       ~items[k].obj /\ \A j \in Matches(items, p) : k < j
\* the score and the reason the reply holds for position p
ExpectedScore(items, p) ==
    LET e == FirstEntry(items, p)
    IN  IF e.score = MissingScore THEN IntScore(0) ELSE e.score
ExpectedReason(items, p) ==
    LET e == FirstEntry(items, p)
    IN  IF e.reason = MissingStr THEN NoScoringAvailable ELSE e.reason
\* the reply parsed and lines 176-183 ran through: every search for an
\* ordinal ended, and the scores can be sorted
MappingRan ==
    /\ ScorerReturned
    /\ response.json \in {"array", "object", "none"}
    /\ \A p \in 1..Len(all_restaurants_flat) : ~MeetsNonObject(response.items, p)
    /\ LET keys == { OrZero(ExpectedScore(response.items, p)) :
                       p \in 1..Len(all_restaurants_flat) }
       IN  \A a, b \in keys : Comparable(a, b)

\* C25: when the reply parsed and the mapping ran through, the candidate at
\* position p of the aggregated sequence has the score and the reason of the
\* reply's entry with ordinal p, score 0 and 'No scoring available' without
\* such an entry, and the scored list holds the aggregated candidates only.
C25_ScoreByOrdinal ==
    MappingRan =>
       /\ \A p \in 1..Len(all_restaurants_flat) :
             /\ heap[all_restaurants_flat[p]].ai_score = ExpectedScore(response.items, p)
             /\ heap[all_restaurants_flat[p]].ai_reason = ExpectedReason(response.items, p)
       /\ Len(scored_restaurants) = Len(all_restaurants_flat)
       /\ \A p \in 1..Len(all_restaurants_flat) :
             \E k \in 1..Len(scored_restaurants) :
                scored_restaurants[k] = all_restaurants_flat[p]

\* two candidates and a reply with an entry for ordinal 2 in front of one
\* whose ordinal matches no candidate: the first candidate has score 0 and
\* 'No scoring available', the second the entry's score
C25_Witness ==
    /\ MappingRan
    /\ Len(all_restaurants_flat) = 2
    /\ Len(response.items) = 2
    /\ response.items[1].restaurantIndex = 2
    /\ response.items[2].obj /\ response.items[2].restaurantIndex = 0
    /\ heap[all_restaurants_flat[1]].ai_score = IntScore(0)
    /\ heap[all_restaurants_flat[1]].ai_reason = NoScoringAvailable
    /\ heap[all_restaurants_flat[2]].ai_score = IntScore(11)

\* C30: when the reply holds several entries with the ordinal of a
\* candidate, the candidate has the score and the reason of the first of them
\* in the reply's order, whatever the later ones say.
C30_FirstDuplicateWins ==
    MappingRan =>
       \A p \in 1..Len(all_restaurants_flat) :
          LET m == Matches(response.items, p)
          IN  \A j \in m :
                 (Cardinality(m) >= 2 /\ \A k \in m : j <= k) =>
                    /\ heap[all_restaurants_flat[p]].ai_score
                         = IF response.items[j].score = MissingScore THEN IntScore(0)
                           ELSE response.items[j].score
                    /\ heap[all_restaurants_flat[p]].ai_reason
                         = IF response.items[j].reason = MissingStr
                           THEN NoScoringAvailable
                           ELSE response.items[j].reason

\* one candidate and a reply with two entries for ordinal 1, scores 5 and 11
\* in this order: the candidate has score 5
C30_Witness ==
    /\ MappingRan
    /\ Len(all_restaurants_flat) = 1
    /\ Matches(response.items, 1) = {1, 2}
    /\ response.items[1].score = IntScore(5)
    /\ response.items[2].score = IntScore(11)
    /\ heap[all_restaurants_flat[1]].ai_score = IntScore(5)

\* generate_one_liner is over
OneLinerOver ==
    script = OneLinerGenerator /\ outcome \in {"completed", "application_error"}
       /\ script_calls.session = 1 /\ one_liner # NoOneLiner

C27_AtMostThreePerSearch ==
    /\ Len(search_queries) <= 3
    /\ \A id \in DOMAIN heap : id[2] <= 3
    /\ \A n \in 1..Len(tasks) :
          /\ Len(tasks[n].result.restaurants) <= 3
          /\ tasks[n].result.status = "returned" =>
                \/ tasks[n].result.restaurants = <<>>
                \/ tasks[n].result.restaurants
                     = [k \in 1..Min(3, tasks[n].restaurants_list) |->
                          <<tasks[n].session_index + 1, k>>]
    /\ Len(all_restaurants_flat) <= 3 * Len(search_queries)
    /\ Len(all_restaurants_flat) <= 9

\* a search extracted four records and returned the first three, and the
\* aggregated sequence holds these three
C27_Witness ==
    /\ Len(tasks) = 1
    /\ tasks[1].restaurants_list = 4
    /\ tasks[1].pc = "done"
    /\ Len(tasks[1].result.restaurants) = 3
    /\ all_restaurants_flat = <<<<1, 1>>, <<1, 2>>, <<1, 3>>>>

\* every search returned an empty Outcome to the joint await
AllOutcomesEmpty ==
    /\ AfterGather
    /\ \A n \in 1..Len(tasks) : tasks[n].result.restaurants = <<>>

\* C28: when every search returns an empty Outcome, because it failed or
\* because nothing was extracted, main issues no scoring request and no
\* nearby-activities request, reports that no restaurants were found and
\* returns; the process ends with status 0, not through the handler of
\* lines 693-700.
C28_NothingFoundEndsNormally ==
    AllOutcomesEmpty =>
       /\ requests.scorer = 0
       /\ requests.activities = 0
       /\ response = NoReply
       /\ activity_call = NoActivityCall
       /\ outcome = "none_found"
       /\ main_pc = "exit"
       /\ exit_code \in {Running, 0}

\* two searches, one that failed and one that extracted nothing, and the
\* process has ended with status 0
C28_Witness ==
    /\ AllOutcomesEmpty
    /\ Len(tasks) >= 2
    /\ \E n \in 1..Len(tasks) : tasks[n].failing
    /\ \E n \in 1..Len(tasks) : ~tasks[n].failing /\ tasks[n].restaurants_list = 0
    /\ outcome = "none_found"
    /\ exit_code = 0

\* C29: when an exception leaves the session block of a search, the context
\* manager has issued its close before the handler runs (the session is
\* released unless that close raised), and the handler issues one further
\* close on the same session; whether or not that second close raises, the
\* coroutine returns the empty Outcome.
C29_HandlerClosesAgain ==
    \A n \in 1..Len(tasks) :
       (tasks[n].bound /\ tasks[n].failing) =>
          /\ tasks[n].pc = "handler" =>
                /\ tasks[n].closes = 1
                /\ calls[n].close = 1
                /\ tasks[n].close_errors = 0 => tasks[n].session = "closed"
          /\ tasks[n].pc = "done" =>
                /\ tasks[n].closes = 2
                /\ calls[n].close = 2
                /\ tasks[n].result = HandlerResult(tasks[n])
                /\ tasks[n].result.restaurants = <<>>

\* a search failed inside its session block, the context manager released
\* the session, the close of the handler raised and the coroutine returned
\* the empty Outcome
C29_Witness ==
    \E n \in 1..Len(tasks) :
       /\ tasks[n].bound /\ tasks[n].failing
       /\ tasks[n].pc = "done"
       /\ tasks[n].session = "closed"
       /\ tasks[n].closes = 2
       /\ tasks[n].close_errors = 1
       /\ tasks[n].result.status = "returned"
       /\ tasks[n].result.restaurants = <<>>

====
